---- MODULE Spec2Model ----
(***************************************************************************)
(* Points redemption valuation engine of dc-miami-flight-analyzer:         *)
(* utils/pointsCalculator.ts over the catalog of data/transferPartners.ts. *)
(*                                                                         *)
(* Numbers.  Money (flight.price, taxes, totalCost, savingsVsCash) is an   *)
(* integer count of 1/MoneyScale dollars, so 5.60 is 56000 and a points    *)
(* valuation of 1.85 cents is exact.  A transfer ratio and a valuationCPP  *)
(* are integers in hundredths (0.8 is 80, 2.0 is 200).  A CPP is an exact  *)
(* rational [n, d] with d > 0; comparisons are exact.                      *)
(* An optional value (undefined / null in the source) is a sequence of     *)
(* length 0 or 1.                                                          *)
(*                                                                         *)
(* Further specifications cover utils/valueAnalyzer.ts (findCashDeals),    *)
(* hooks/useFlightSearch.ts (the cache-first search with its overlapping   *)
(* asynchronous calls) and hooks/usePriceAlerts.ts with                    *)
(* utils/priceChecker.ts and the price-check effect of App.tsx.            *)
(***************************************************************************)
EXTENDS Integers, Sequences, FiniteSets, TLC

VARIABLES
    catalog,   \* the module-level data: TRANSFER_PARTNERS and POINTS_PROGRAMS
    call,      \* the arguments of the latest call to the engine
    ret,       \* what that call returned
    firstAnalysis,  \* history: the first analysis of the behaviour with its arguments
    search,    \* hooks/useFlightSearch.ts: the hook's state, the stored cache,
               \* the clock and the searchFlights calls in flight
    alerting   \* hooks/usePriceAlerts.ts and utils/priceChecker.ts: the watched
               \* routes, the alerts, the stored price history and App's effect

vars == <<catalog, call, ret, firstAnalysis, search, alerting>>

\* the value of a hook's variable while the component using it is not mounted
Unmounted == << >>

\* ------------------------------------------------------------------ bounds
\* flight prices are drawn from a grid of PriceStep dollars, 0..MaxPriceIdx
MaxPriceIdx == 20
\* userPointsBalance is drawn from a grid of BalanceStep points, 0..MaxBalanceIdx
MaxBalanceIdx == 5
\* findCashDeals is given lists of at most MaxFlights flights
MaxFlights == 2
\* at most MaxCalls calls of searchFlights are started in a behaviour
MaxCalls == 2
\* the clock advances at most MaxTicks times, by TickMs each time
MaxTicks == 2

\* ---------------------------------------------------------------- numerics
MoneyScale == 100 * 100
RatioScale == 10 * 10
Dollars(d) == d * MoneyScale
Cents(c) == c * (MoneyScale \div 100)

None == <<>>
Some(v) == <<v>>
IsSome(o) == Len(o) > 0
Get(o) == o[1]

Abs(x) == IF x < 0 THEN -x ELSE x

\* Math.ceil(a / b) for b > 0
CeilDiv(a, b) == -((-a) \div b)

Rat(n, d) == [n |-> n, d |-> d]

RECURSIVE CmpFrac(_, _, _, _)
\* the sign of n1/d1 - n2/d2 (d1, d2 > 0), by the continued-fraction expansion
CmpFrac(n1, d1, n2, d2) ==
    LET q1 == n1 \div d1
        q2 == n2 \div d2
        r1 == n1 % d1
        r2 == n2 % d2
    IN  IF q1 # q2 THEN (IF q1 < q2 THEN -1 ELSE 1)
        ELSE IF r1 = 0 \/ r2 = 0
             THEN (IF r1 = r2 THEN 0 ELSE IF r1 = 0 THEN -1 ELSE 1)
             ELSE CmpFrac(d2, r2, d1, r1)

RatCmp(a, b) == CmpFrac(a.n, a.d, b.n, b.d)
\* a >= k/100, the comparison of a CPP with a literal such as 1.5
RatGeq(a, k100) == a.n * 100 >= k100 * a.d

\* Number.prototype.toFixed(digits) for digits in {0, 2}: the sign and the
\* magnitude in units of 10^-digits, halves rounded away from zero
ToFixed(x, digits) ==
    LET p == IF digits = 2 THEN 100 ELSE 1
        m == Abs(x.n)
        q == m \div x.d
        r == m % x.d
    IN  [neg |-> x.n < 0, mag |-> q * p + ((2 * r * p + x.d) \div (2 * x.d))]

\* ----------------------------------------------------------------- catalog
PointsProgram == {"MR", "UR", "TYP", "C1", "BILT"}
Cabin == {"Economy", "First"}
AllFive == <<"MR", "UR", "TYP", "C1", "BILT">>
\* transferRatios with every listed program at 1.0
RatioOne(progs) == [p \in progs |-> RatioScale]
Award(saver, standard) == [saver |-> saver, standard |-> standard]
SweetSpot(description, points, taxes, cabin) ==
    [description |-> description, points |-> points, taxes |-> taxes, cabin |-> cabin]
TransferPartner(id, name, programs, transferRatios, eco, first, valuationCPP, sweetSpots) ==
    [id |-> id, name |-> name, programs |-> programs, transferRatios |-> transferRatios,
     domesticEconomy |-> eco, domesticFirst |-> first, valuationCPP |-> valuationCPP,
     sweetSpots |-> sweetSpots]

avianca ==
    TransferPartner("avianca", "Avianca LifeMiles", AllFive, RatioOne(PointsProgram),
        Award(10000, 15000), Award(20000, 30000), 140,
        << SweetSpot("Domestic Economy - THE Sweet Spot (Star Alliance)", 10000, Cents(560), "Economy"),
           SweetSpot("Domestic First Class", 20000, Cents(560), "First") >>)
britishAirways ==
    TransferPartner("british-airways", "British Airways Avios", AllFive, RatioOne(PointsProgram),
        Award(11000, 16500), Award(22000, 33000), 150,
        << SweetSpot("Short-haul AA flights (under 1151 miles)", 11000, Cents(560), "Economy") >>)
aadvantage ==
    TransferPartner("aadvantage", "American Airlines AAdvantage", AllFive, RatioOne(PointsProgram),
        Award(12500, 20000), Award(25000, 45000), 140,
        << SweetSpot("Web Specials Economy", 7500, Cents(560), "Economy") >>)
delta ==
    TransferPartner("delta", "Delta SkyMiles", <<"MR">>, RatioOne({"MR"}),
        Award(12000, 35000), Award(30000, 80000), 120, << >>)
jetblue ==
    TransferPartner("jetblue", "JetBlue TrueBlue", AllFive,
        [p \in PointsProgram |-> IF p = "MR" THEN 80 ELSE RatioScale],
        Award(6000, 20000), Award(15000, 45000), 130,
        << SweetSpot("Low-cost economy redemptions", 6000, Cents(560), "Economy") >>)
united ==
    TransferPartner("united", "United MileagePlus", <<"UR", "TYP", "BILT">>,
        RatioOne({"UR", "TYP", "BILT"}),
        Award(12500, 25000), Award(25000, 50000), 120, << >>)
southwest ==
    TransferPartner("southwest", "Southwest Rapid Rewards", <<"UR", "C1", "BILT">>,
        RatioOne({"UR", "C1", "BILT"}),
        Award(8000, 25000), Award(8000, 25000), 130, << >>)
virginAtlantic ==
    TransferPartner("virgin-atlantic", "Virgin Atlantic Flying Club", AllFive, RatioOne(PointsProgram),
        Award(12500, 20000), Award(25000, 40000), 150,
        << SweetSpot("Book Delta domestic via Virgin", 12500, Cents(560), "Economy") >>)
airFranceKlm ==
    TransferPartner("air-france-klm", "Air France/KLM Flying Blue", AllFive, RatioOne(PointsProgram),
        Award(12500, 18750), Award(25000, 37500), 140,
        << SweetSpot("Promo Rewards discounts", 10000, Cents(560), "Economy") >>)

\* the array of data/transferPartners.ts, in declaration order
TRANSFER_PARTNERS ==
    << avianca, britishAirways, aadvantage, delta, jetblue, united, southwest,
       virginAtlantic, airFranceKlm >>

\* valuationCPP of each program's metadata, in hundredths of a cent
POINTS_PROGRAMS ==
    [p \in PointsProgram |->
        [valuationCPP |-> CASE p = "MR" -> 200 [] p = "UR" -> 200 [] p = "TYP" -> 180
                            [] p = "C1" -> 185 [] p = "BILT" -> 180]]

ReferenceCatalog == [partners |-> TRANSFER_PARTNERS, programs |-> POINTS_PROGRAMS]

\* Other values of the same types, as a caller or a test may install them in
\* the exported array: a Business sweet spot and two Economy ones, ratios
\* below and above 1, a ratio of 0 and a missing ratio, an award of 0 points,
\* partners with equal prices, and programs nobody accepts.
fixtureBusiness ==
    TransferPartner("fx-business", "Fixture Business", <<"MR", "UR">>,
        [p \in {"MR", "UR"} |-> IF p = "MR" THEN 80 ELSE 200],
        Award(9000, 12000), Award(60001, 70000), 140,
        << SweetSpot("Transcon Business", 1000, 0, "Business"),
           SweetSpot("Economy promo", 7001, Cents(1120), "Economy"),
           SweetSpot("Economy second promo", 5000, Cents(560), "Economy") >>)
fixtureDefaultRatio ==
    TransferPartner("fx-default-ratio", "Fixture Default Ratio", <<"MR", "TYP">>,
        [p \in {"TYP"} |-> 0],
        Award(0, 0), Award(20000, 30000), 130, << >>)
fixtureTieA ==
    TransferPartner("fx-tie-a", "Fixture Tie A", <<"MR", "TYP">>, RatioOne({"MR", "TYP"}),
        Award(12000, 30000), Award(25000, 40000), 130,
        << SweetSpot("First promo", 20000, Cents(560), "First") >>)
fixtureTieB ==
    TransferPartner("fx-tie-b", "Fixture Tie B", <<"TYP", "MR">>, RatioOne({"MR", "TYP"}),
        Award(12000, 30000), Award(20000, 40000), 130, << >>)

FixtureCatalog ==
    [partners |-> << fixtureBusiness, fixtureDefaultRatio, fixtureTieA, fixtureTieB >>,
     programs |-> [p \in PointsProgram |->
                    [valuationCPP |-> IF p = "TYP" THEN 100
                                      ELSE POINTS_PROGRAMS[p].valuationCPP]]]

Catalogs == {ReferenceCatalog, FixtureCatalog}

\* ------------------------------------------------------------------ inputs
Prices ==
    {Dollars(25 * i) : i \in 0..MaxPriceIdx}
    \cup {Cents(500), Cents(560), Cents(1120), Cents(8060), Cents(11810), Dollars(120),
          Cents(14999), Cents(15560), Cents(20560), Cents(30560), Dollars(380),
          Cents(39999), Dollars(410)}
Flights == [price : Prices, cabin : Cabin]
Balances == {None} \cup {Some(2500 * i) : i \in 0..MaxBalanceIdx}

\* ----------------------------------------------------- transferPartners.ts
\* Array.prototype.includes
Includes(seq, x) == \E i \in 1..Len(seq) : seq[i] = x

\* the catalog returned without the filter
getPartnersUnfiltered(program) == catalog.partners

getPartnersForProgram(program) ==
    SelectSeq(catalog.partners, LAMBDA p : Includes(p.programs, program))

\* ----------------------------------------------------- pointsCalculator.ts
\* the CPP without the taxes taken off the cash price
calculateCPPTaxesIgnored(cashPrice, taxes, sourcePoints) ==
    IF sourcePoints = 0 THEN Rat(0, 1)
    ELSE Rat(cashPrice, sourcePoints * (MoneyScale \div 100))

\* the CPP floored at 0 when the taxes exceed the cash price
calculateCPPNeverNegative(cashPrice, taxes, sourcePoints) ==
    IF sourcePoints = 0 \/ cashPrice < taxes THEN Rat(0, 1)
    ELSE Rat(cashPrice - taxes, sourcePoints * (MoneyScale \div 100))

calculateCPPForRedemption(cashPrice, taxes, sourcePoints) ==
    IF sourcePoints = 0 THEN Rat(0, 1)
    ELSE Rat(cashPrice - taxes, sourcePoints * (MoneyScale \div 100))

\* the tiers with strict thresholds (> for >=)
getRecommendationStrict(cpp) ==
    IF RatCmp(cpp, Rat(2, 1)) > 0 THEN "EXCELLENT"
    ELSE IF RatCmp(cpp, Rat(3, 2)) > 0 THEN "GOOD"
    ELSE IF RatCmp(cpp, Rat(1, 1)) > 0 THEN "FAIR"
    ELSE "POOR"

getRecommendation(cpp) ==
    IF RatGeq(cpp, 200) THEN "EXCELLENT"
    ELSE IF RatGeq(cpp, 150) THEN "GOOD"
    ELSE IF RatGeq(cpp, 100) THEN "FAIR"
    ELSE "POOR"

\* flight.cabin === 'Economy' ? partner.domesticEconomy.saver : partner.domesticFirst.saver
basePointsOf(partner, flight) ==
    IF flight.cabin = "Economy" THEN partner.domesticEconomy.saver
    ELSE partner.domesticFirst.saver

\* partner.transferRatios[userProgram] || 1.0
transferRatioOf(partner, userProgram) ==
    IF userProgram \in DOMAIN partner.transferRatios
       /\ partner.transferRatios[userProgram] # 0
    THEN partner.transferRatios[userProgram]
    ELSE RatioScale

\* cabin === 'Economy' ? p.domesticEconomy.saver : p.domesticFirst.saver
saverPointsOf(partner, cabin) ==
    IF cabin = "Economy" THEN partner.domesticEconomy.saver
    ELSE partner.domesticFirst.saver

\* the reducer keeping the current partner on an equal effective cost too
betterDomesticOrEqual(best, current, program, cabin) ==
    IF CmpFrac(saverPointsOf(current, cabin) * RatioScale, transferRatioOf(current, program),
               saverPointsOf(best, cabin) * RatioScale, transferRatioOf(best, program)) <= 0
    THEN current ELSE best

\* the reducer of getBestDomesticPartner:
\* currentEffective < bestEffective ? current : best
betterDomestic(best, current, program, cabin) ==
    IF CmpFrac(saverPointsOf(current, cabin) * RatioScale, transferRatioOf(current, program),
               saverPointsOf(best, cabin) * RatioScale, transferRatioOf(best, program)) < 0
    THEN current ELSE best

RECURSIVE reduceDomestic(_, _, _, _)
\* Array.prototype.reduce over the rest of the array
reduceDomestic(best, rest, program, cabin) ==
    IF rest = << >> THEN best
    ELSE reduceDomestic(betterDomestic(best, Head(rest), program, cabin),
                        Tail(rest), program, cabin)

getBestDomesticPartner(program, cabin) ==
    LET partners == getPartnersForProgram(program)
    IN  IF Len(partners) = 0 THEN None
        ELSE Some(reduceDomestic(Head(partners), Tail(partners), program, cabin))

\* the first sweet spot whatever its cabin
findSweetSpotAnyCabin(partner, flight) ==
    IF partner.sweetSpots = << >> THEN None ELSE Some(Head(partner.sweetSpots))

\* partner.sweetSpots.find((ss) => ss.cabin === flight.cabin)
findSweetSpot(partner, flight) ==
    LET hits == SelectSeq(partner.sweetSpots, LAMBDA ss : ss.cabin = flight.cabin)
    IN  IF hits = << >> THEN None ELSE Some(Head(hits))

\* Math.floor for Math.ceil
sourcePointsFloor(finalPartnerPoints, transferRatio) ==
    (finalPartnerPoints * RatioScale) \div transferRatio

\* Math.ceil(finalPartnerPoints / transferRatio)
sourcePointsOf(finalPartnerPoints, transferRatio) ==
    CeilDiv(finalPartnerPoints * RatioScale, transferRatio)

\* the callback valuing the points at the partner's own valuationCPP
redemptionOptionPartnerValuation(partner, flight, userProgram) ==
    LET basePoints == basePointsOf(partner, flight)
        transferRatio == transferRatioOf(partner, userProgram)
        sweetSpot == findSweetSpot(partner, flight)
        finalPartnerPoints == IF IsSome(sweetSpot) THEN Get(sweetSpot).points ELSE basePoints
        finalSourcePoints == sourcePointsOf(finalPartnerPoints, transferRatio)
        taxes == IF IsSome(sweetSpot) THEN Get(sweetSpot).taxes ELSE Cents(560)
        cpp == calculateCPPForRedemption(flight.price, taxes, finalSourcePoints)
        totalPointsCost == finalSourcePoints * partner.valuationCPP + taxes
    IN  [partner |-> partner,
         partnerPoints |-> finalPartnerPoints,
         sourcePoints |-> finalSourcePoints,
         transferRatio |-> transferRatio,
         taxes |-> taxes,
         totalCost |-> totalPointsCost,
         cpp |-> cpp,
         isSweetSpot |-> IsSome(sweetSpot),
         sweetSpotDescription |->
             IF IsSome(sweetSpot) THEN Some(Get(sweetSpot).description) ELSE None,
         recommendation |-> getRecommendation(cpp),
         savingsVsCash |-> flight.price - totalPointsCost]

\* the callback of partners.map(...)
redemptionOption(partner, flight, userProgram) ==
    LET programValuation == catalog.programs[userProgram].valuationCPP
        basePoints == basePointsOf(partner, flight)
        transferRatio == transferRatioOf(partner, userProgram)
        sweetSpot == findSweetSpot(partner, flight)
        finalPartnerPoints == IF IsSome(sweetSpot) THEN Get(sweetSpot).points ELSE basePoints
        finalSourcePoints == sourcePointsOf(finalPartnerPoints, transferRatio)
        taxes == IF IsSome(sweetSpot) THEN Get(sweetSpot).taxes ELSE Cents(560)
        cpp == calculateCPPForRedemption(flight.price, taxes, finalSourcePoints)
        pointsValueAtProgramRate == finalSourcePoints * programValuation
        totalPointsCost == pointsValueAtProgramRate + taxes
        savingsVsCash == flight.price - totalPointsCost
    IN  [partner |-> partner,
         partnerPoints |-> finalPartnerPoints,
         sourcePoints |-> finalSourcePoints,
         transferRatio |-> transferRatio,
         taxes |-> taxes,
         totalCost |-> totalPointsCost,
         cpp |-> cpp,
         isSweetSpot |-> IsSome(sweetSpot),
         sweetSpotDescription |->
             IF IsSome(sweetSpot) THEN Some(Get(sweetSpot).description) ELSE None,
         recommendation |-> getRecommendation(cpp),
         savingsVsCash |-> savingsVsCash]

\* the comparator with its operands swapped: (a, b) => a.cpp - b.cpp
compareCppAscending(a, b) == RatCmp(a.cpp, b.cpp)

\* (a, b) => b.cpp - a.cpp, as its sign
compareCpp(a, b) == RatCmp(b.cpp, a.cpp)

RECURSIVE insertSorted(_, _)
\* x goes before the first element the comparator orders after it
insertSorted(sorted, x) ==
    IF sorted = << >> THEN << x >>
    ELSE IF compareCpp(Head(sorted), x) > 0 THEN << x >> \o sorted
    ELSE << Head(sorted) >> \o insertSorted(Tail(sorted), x)

RECURSIVE sortFrom(_, _)
sortFrom(rest, sorted) ==
    IF rest = << >> THEN sorted
    ELSE sortFrom(Tail(rest), insertSorted(sorted, Head(rest)))

\* Array.prototype.sort with compareCpp: stable since ES2019
sortByCpp(options) == sortFrom(options, << >>)

calculateAllRedemptions(flight, userProgram) ==
    LET partners == getPartnersForProgram(userProgram)
    IN  sortByCpp([i \in 1..Len(partners) |-> redemptionOption(partners[i], flight, userProgram)])

\* the last element of the ranked list for the first
getBestRedemptionLast(flight, userProgram) ==
    LET redemptions == calculateAllRedemptions(flight, userProgram)
    IN  IF Len(redemptions) > 0 THEN Some(redemptions[Len(redemptions)]) ELSE None

getBestRedemption(flight, userProgram) ==
    LET redemptions == calculateAllRedemptions(flight, userProgram)
    IN  IF Len(redemptions) > 0 THEN Some(redemptions[1]) ELSE None

\* the recommendation string: its fixed wording and what is interpolated
Text(wording, partner, cpp, description, savings, need) ==
    [wording |-> wording, partner |-> partner, cpp |-> cpp,
     description |-> description, savings |-> savings, need |-> need]

NoPartnersText ==
    Text("No transfer partners available for this program.", None, None, None, None, None)

\* the affordability test taken strictly (> for >=)
canAffordStrict(userPointsBalance, best) ==
    ~IsSome(userPointsBalance) \/ Get(userPointsBalance) > best.sourcePoints

\* userPointsBalance === undefined || userPointsBalance >= bestRedemption.sourcePoints
canAffordOf(userPointsBalance, best) ==
    ~IsSome(userPointsBalance) \/ Get(userPointsBalance) >= best.sourcePoints

\* the shortfall note appended in the sweet-spot branch
shortfallNote(userPointsBalance, best) ==
    IF ~canAffordOf(userPointsBalance, best) /\ IsSome(userPointsBalance)
    THEN Some(best.sourcePoints - Get(userPointsBalance))
    ELSE None

\* the cash-deal thresholds taken inclusively (<= for <)
cashIsCheapInclusive(flight) ==
    \/ flight.cabin = "Economy" /\ flight.price <= Dollars(150)
    \/ flight.cabin = "First" /\ flight.price <= Dollars(400)

\* the condition of the "cash is cheap" branch
cashIsCheap(flight) ==
    \/ flight.cabin = "Economy" /\ flight.price < Dollars(150)
    \/ flight.cabin = "First" /\ flight.price < Dollars(400)

\* Math.abs left out
signedSavings(best) == best.savingsVsCash

\* Math.abs(bestRedemption.savingsVsCash)
absSavings(best) == Abs(best.savingsVsCash)

\* the chain with the CPP >= 1.0 branch tested before the cash-deal branch
decideFairBeforeCashDeal(flight, best, userPointsBalance) ==
    LET name == Some(best.partner.name)
        cpp2 == Some(ToFixed(best.cpp, 2))
    IN  IF best.isSweetSpot /\ RatGeq(best.cpp, 150) THEN
            [bestOption |-> "POINTS",
             savingsAmount |-> best.savingsVsCash,
             recommendation |->
                 Text("SWEET SPOT! Use _ for _ CPP. _", name, cpp2,
                      best.sweetSpotDescription, None,
                      shortfallNote(userPointsBalance, best))]
        ELSE IF RatGeq(best.cpp, 200) THEN
            [bestOption |-> "POINTS",
             savingsAmount |-> best.savingsVsCash,
             recommendation |->
                 Text("Excellent value! Use _ at _ CPP.", name, cpp2, None, None, None)]
        ELSE IF RatGeq(best.cpp, 150) THEN
            [bestOption |-> "POINTS",
             savingsAmount |-> best.savingsVsCash,
             recommendation |->
                 Text("Good value. Consider _ at _ CPP.", name, cpp2, None, None, None)]
        ELSE IF RatGeq(best.cpp, 100) THEN
            [bestOption |-> IF best.savingsVsCash > 0 THEN "POINTS" ELSE "CASH",
             savingsAmount |-> absSavings(best),
             recommendation |->
                 IF best.savingsVsCash > 0
                 THEN Text("Fair value. _ at _ CPP saves ~$_.", name, cpp2, None,
                           Some(ToFixed(Rat(absSavings(best), MoneyScale), 0)), None)
                 ELSE Text("Consider cash. Points value (_ CPP) is marginal.",
                           None, cpp2, None, None, None)]
        ELSE IF cashIsCheap(flight) THEN
            [bestOption |-> "CASH",
             savingsAmount |-> absSavings(best),
             recommendation |->
                 Text("Cash deal! This price is too low to justify using points (_ CPP).",
                      None, cpp2, None, None, None)]
        ELSE
            [bestOption |-> "CASH",
             savingsAmount |-> absSavings(best),
             recommendation |->
                 Text("Pay cash. Point value too low (_ CPP). Save points for better redemptions.",
                      None, cpp2, None, None, None)]

\* the if / else-if chain: bestOption, recommendation and savingsAmount
decide(flight, best, userPointsBalance) ==
    LET name == Some(best.partner.name)
        cpp2 == Some(ToFixed(best.cpp, 2))
    IN  IF best.isSweetSpot /\ RatGeq(best.cpp, 150) THEN
            [bestOption |-> "POINTS",
             savingsAmount |-> best.savingsVsCash,
             recommendation |->
                 Text("SWEET SPOT! Use _ for _ CPP. _", name, cpp2,
                      best.sweetSpotDescription, None,
                      shortfallNote(userPointsBalance, best))]
        ELSE IF RatGeq(best.cpp, 200) THEN
            [bestOption |-> "POINTS",
             savingsAmount |-> best.savingsVsCash,
             recommendation |->
                 Text("Excellent value! Use _ at _ CPP.", name, cpp2, None, None, None)]
        ELSE IF RatGeq(best.cpp, 150) THEN
            [bestOption |-> "POINTS",
             savingsAmount |-> best.savingsVsCash,
             recommendation |->
                 Text("Good value. Consider _ at _ CPP.", name, cpp2, None, None, None)]
        ELSE IF cashIsCheap(flight) THEN
            [bestOption |-> "CASH",
             savingsAmount |-> absSavings(best),
             recommendation |->
                 Text("Cash deal! This price is too low to justify using points (_ CPP).",
                      None, cpp2, None, None, None)]
        ELSE IF RatGeq(best.cpp, 100) THEN
            [bestOption |-> IF best.savingsVsCash > 0 THEN "POINTS" ELSE "CASH",
             savingsAmount |-> absSavings(best),
             recommendation |->
                 IF best.savingsVsCash > 0
                 THEN Text("Fair value. _ at _ CPP saves ~$_.", name, cpp2, None,
                           Some(ToFixed(Rat(absSavings(best), MoneyScale), 0)), None)
                 ELSE Text("Consider cash. Points value (_ CPP) is marginal.",
                           None, cpp2, None, None, None)]
        ELSE
            [bestOption |-> "CASH",
             savingsAmount |-> absSavings(best),
             recommendation |->
                 Text("Pay cash. Point value too low (_ CPP). Save points for better redemptions.",
                      None, cpp2, None, None, None)]

\* the early return reporting the price as savings
noRedemptionAnalysisPriceAsSavings(flight) ==
    [cashPrice |-> flight.price,
     bestOption |-> "CASH",
     bestRedemption |-> None,
     allRedemptions |-> << >>,
     recommendation |-> NoPartnersText,
     savingsAmount |-> flight.price]

\* the early return when there is no redemption option
noRedemptionAnalysis(flight) ==
    [cashPrice |-> flight.price,
     bestOption |-> "CASH",
     bestRedemption |-> None,
     allRedemptions |-> << >>,
     recommendation |-> NoPartnersText,
     savingsAmount |-> 0]

\* the analysis falling back to CASH when the balance does not cover the best option
analyzeCashWhenUnaffordable(flight, userProgram, userPointsBalance) ==
    LET allRedemptions == calculateAllRedemptions(flight, userProgram)
        bestRedemption == IF Len(allRedemptions) > 0 THEN Some(allRedemptions[1]) ELSE None
    IN  IF ~IsSome(bestRedemption) THEN
            noRedemptionAnalysis(flight)
        ELSE
            LET d == decide(flight, Get(bestRedemption), userPointsBalance)
                afford == canAffordOf(userPointsBalance, Get(bestRedemption))
            IN  [cashPrice |-> flight.price,
                 bestOption |-> IF afford THEN d.bestOption ELSE "CASH",
                 bestRedemption |-> bestRedemption,
                 allRedemptions |-> allRedemptions,
                 recommendation |-> d.recommendation,
                 savingsAmount |-> d.savingsAmount]

analyzeFlightRedemption(flight, userProgram, userPointsBalance) ==
    LET allRedemptions == calculateAllRedemptions(flight, userProgram)
        bestRedemption == IF Len(allRedemptions) > 0 THEN Some(allRedemptions[1]) ELSE None
    IN  IF ~IsSome(bestRedemption) THEN
            noRedemptionAnalysis(flight)
        ELSE
            LET d == decide(flight, Get(bestRedemption), userPointsBalance)
            IN  [cashPrice |-> flight.price,
                 bestOption |-> d.bestOption,
                 bestRedemption |-> bestRedemption,
                 allRedemptions |-> allRedemptions,
                 recommendation |-> d.recommendation,
                 savingsAmount |-> d.savingsAmount]

\* ----------------------------------------------------------- state machine
\* TRANSFER_PARTNERS with its partners reordered by the CPP sort, as sorting
\* the catalog array itself would leave it
catalogSortedInPlace(flight, userProgram) ==
    LET partners == catalog.partners
        ranked == sortByCpp([i \in 1..Len(partners) |->
                                redemptionOption(partners[i], flight, userProgram)])
    IN  [catalog EXCEPT !.partners = [i \in 1..Len(partners) |-> ranked[i].partner]]

\* the catalog after calculateAllRedemptions: filter and map build new arrays
\* and sort reorders the mapped one; nothing writes to the catalog
catalogAfterRanking(flight, userProgram) == catalog

\* The engine keeps no state of its own: a behaviour fixes the catalog and the
\* arguments (flight, program, userPointsBalance) and then calls the exported
\* functions on them, in any order and any number of times.
Init ==
    /\ catalog \in Catalogs
    /\ call \in [op : {"none"}, flight : Flights, program : PointsProgram, balance : Balances]
    /\ ret = << >>
    /\ firstAnalysis = None
    /\ search = Unmounted /\ alerting = Unmounted

CallGetPartnersForProgram ==
    /\ call' = [call EXCEPT !.op = "getPartnersForProgram"]
    /\ ret' = getPartnersForProgram(call.program)
    /\ UNCHANGED <<catalog, search, alerting>>

CallGetBestDomesticPartner ==
    /\ call' = [call EXCEPT !.op = "getBestDomesticPartner"]
    /\ ret' = getBestDomesticPartner(call.program, call.flight.cabin)
    /\ UNCHANGED <<catalog, search, alerting>>

CallCalculateAllRedemptions ==
    /\ call' = [call EXCEPT !.op = "calculateAllRedemptions"]
    /\ ret' = calculateAllRedemptions(call.flight, call.program)
    /\ catalog' = catalogAfterRanking(call.flight, call.program)
    /\ UNCHANGED <<search, alerting>>

CallGetBestRedemption ==
    /\ call' = [call EXCEPT !.op = "getBestRedemption"]
    /\ ret' = getBestRedemption(call.flight, call.program)
    /\ catalog' = catalogAfterRanking(call.flight, call.program)
    /\ UNCHANGED <<search, alerting>>

CallAnalyzeFlightRedemption ==
    /\ call' = [call EXCEPT !.op = "analyzeFlightRedemption"]
    /\ ret' = analyzeFlightRedemption(call.flight, call.program, call.balance)
    /\ catalog' = catalogAfterRanking(call.flight, call.program)
    /\ UNCHANGED <<search, alerting>>

Next ==
    \/ CallGetPartnersForProgram /\ UNCHANGED firstAnalysis
    \/ CallGetBestDomesticPartner /\ UNCHANGED firstAnalysis
    \/ CallCalculateAllRedemptions /\ UNCHANGED firstAnalysis
    \/ CallGetBestRedemption /\ UNCHANGED firstAnalysis
    \/ CallAnalyzeFlightRedemption /\ UNCHANGED firstAnalysis

Spec == Init /\ [][Next]_vars

\* The same calls with a history: the first analysis is remembered with its
\* arguments, the calls made after it are noted, and the caller may move to
\* the other cabin between calls.
Remembered(analysis) ==
    IF firstAnalysis = None
    THEN Some([flight |-> call.flight, program |-> call.program,
               balance |-> call.balance, result |-> analysis, between |-> FALSE])
    ELSE firstAnalysis

Noted ==
    IF firstAnalysis = None THEN firstAnalysis
    ELSE Some([Get(firstAnalysis) EXCEPT !.between = TRUE])

ChangeCabin ==
    /\ call' = [call EXCEPT !.op = "none",
                            !.flight.cabin = IF @ = "Economy" THEN "First" ELSE "Economy"]
    /\ ret' = << >>
    /\ firstAnalysis' = Noted
    /\ UNCHANGED <<catalog, search, alerting>>

NextHistory ==
    \/ CallGetPartnersForProgram /\ firstAnalysis' = Noted
    \/ CallGetBestDomesticPartner /\ firstAnalysis' = Noted
    \/ CallCalculateAllRedemptions /\ firstAnalysis' = Noted
    \/ CallGetBestRedemption /\ firstAnalysis' = Noted
    \/ CallAnalyzeFlightRedemption /\ firstAnalysis' = Remembered(ret')
    \/ ChangeCabin

SpecHistory == Init /\ [][NextHistory]_vars

\* ------------------------------------------------------ valueAnalyzer.ts
\* the flights handed to findCashDeals: prices on both sides of the cash-deal
\* thresholds and of the CPP thresholds of the cheapest awards
DealPrices ==
    {Cents(500), Dollars(100), Dollars(120), Cents(14999), Dollars(150),
     Dollars(200), Dollars(380), Cents(39999), Dollars(400)}
DealFlights == [price : DealPrices, cabin : Cabin]
FlightLists == UNION {[1..n -> DealFlights] : n \in 0..MaxFlights}

\* the default values of the parameters economyThreshold and firstThreshold
economyThresholdDefault == Dollars(150)
firstThresholdDefault == Dollars(400)

\* the alert pushed for a flight under its threshold
cashDealAlert(flight, userProgram) ==
    [type |-> "CASH_DEAL",
     title |-> [wording |-> "Cash Deal: $_", price |-> flight.price],
     description |-> "_ -> _ on _. Too cheap for points!",
     flight |-> flight,
     analysis |-> analyzeFlightRedemption(flight, userProgram, None)]

\* the comparator of alerts.sort: (a, b) => a.flight.price - b.flight.price
comparePrice(a, b) == a.flight.price - b.flight.price

RECURSIVE insertByPrice(_, _)
insertByPrice(sorted, x) ==
    IF sorted = << >> THEN << x >>
    ELSE IF comparePrice(sorted[Len(sorted)], x) <= 0 THEN Append(sorted, x)
    ELSE Append(insertByPrice(SubSeq(sorted, 1, Len(sorted) - 1), x), sorted[Len(sorted)])

RECURSIVE sortByPriceFrom(_, _)
sortByPriceFrom(rest, sorted) ==
    IF rest = << >> THEN sorted
    ELSE sortByPriceFrom(Tail(rest), insertByPrice(sorted, Head(rest)))

\* the for loop of findCashDeals: one alert per flight under its threshold
RECURSIVE cashDealAlerts(_, _, _, _)
cashDealAlerts(flights, userProgram, economyThreshold, firstThreshold) ==
    IF flights = << >> THEN << >>
    ELSE LET flight == Head(flights)
             threshold == IF flight.cabin = "Economy" THEN economyThreshold
                          ELSE firstThreshold
             rest == cashDealAlerts(Tail(flights), userProgram,
                                    economyThreshold, firstThreshold)
         IN  IF flight.price < threshold
             THEN << cashDealAlert(flight, userProgram) >> \o rest
             ELSE rest

findCashDeals(flights, userProgram, economyThreshold, firstThreshold) ==
    sortByPriceFrom(cashDealAlerts(flights, userProgram, economyThreshold, firstThreshold),
                    << >>)

InitCashDeals ==
    /\ catalog \in Catalogs
    /\ call \in [op : {"none"}, flights : FlightLists, program : PointsProgram]
    /\ ret = << >>
    /\ firstAnalysis = None
    /\ search = Unmounted /\ alerting = Unmounted

CallFindCashDeals ==
    /\ call' = [call EXCEPT !.op = "findCashDeals"]
    /\ ret' = findCashDeals(call.flights, call.program,
                            economyThresholdDefault, firstThresholdDefault)
    /\ UNCHANGED <<catalog, firstAnalysis, search, alerting>>

NextCashDeals == CallFindCashDeals

SpecCashDeals == InitCashDeals /\ [][NextCashDeals]_vars

\* ------------------------------------------------ hooks/useFlightSearch.ts
\* 6 hours in milliseconds
CACHE_DURATION_MS == 6 * 60 * 60 * 1000
\* the clock (Date.now()) is observed every six hours: a cache is then new,
\* exactly CACHE_DURATION_MS old, or older
TickMs == 6 * 60 * 60 * 1000

\* the (origins, destinations) arguments given to searchFlights: the same
\* airports in two orders, and fewer origins with another destination
Requests ==
    { [origins |-> <<"DCA", "IAD">>, destinations |-> <<"MIA">>],
      [origins |-> <<"IAD", "DCA">>, destinations |-> <<"MIA">>],
      [origins |-> <<"DCA">>, destinations |-> <<"FLL">>] }

\* how the awaited searchFlightsMultipleDates settles: with flights, with an
\* empty array, or rejected with a message
ApiOutcomes == {"flights", "empty", "API_QUOTA_EXCEEDED", "API_KEY_INVALID", "failed"}

\* the arrays of offers a service resolves with for the call numbered id
ApiFlights(id) == << [from |-> "api", call |-> id] >>
MockFlights(id) == << [from |-> "mock", call |-> id] >>

\* the state of the hook after its first render, over a given localStorage
useFlightSearch(stored, hasRealApiKey) ==
    [flights |-> << >>, isLoading |-> FALSE, error |-> None, dataSource |-> "none",
     cacheAge |-> [text |-> ""], hasRealApiKey |-> hasRealApiKey,
     storage |-> stored, now |-> 0, calls |-> << >>, mockTimers |-> << >>]

\* the validity test with an exclusive age limit (>= for >)
isCacheValidExclusive(cache, origins, destinations) ==
    IF ~IsSome(cache) THEN FALSE
    ELSE IF search.now - Get(cache).timestamp >= CACHE_DURATION_MS THEN FALSE
    ELSE /\ \A i \in 1..Len(origins) : Includes(Get(cache).origins, origins[i])
         /\ \A i \in 1..Len(Get(cache).origins) : Includes(origins, Get(cache).origins[i])
         /\ \A i \in 1..Len(destinations) :
                Includes(Get(cache).destinations, destinations[i])
         /\ \A i \in 1..Len(Get(cache).destinations) :
                Includes(destinations, Get(cache).destinations[i])

isCacheValid(cache, origins, destinations) ==
    IF ~IsSome(cache) THEN FALSE
    ELSE LET age == search.now - Get(cache).timestamp
             originsMatch ==
                 /\ \A i \in 1..Len(origins) : Includes(Get(cache).origins, origins[i])
                 /\ \A i \in 1..Len(Get(cache).origins) :
                        Includes(origins, Get(cache).origins[i])
             destsMatch ==
                 /\ \A i \in 1..Len(destinations) :
                        Includes(Get(cache).destinations, destinations[i])
                 /\ \A i \in 1..Len(Get(cache).destinations) :
                        Includes(destinations, Get(cache).destinations[i])
         IN  IF age > CACHE_DURATION_MS THEN FALSE ELSE originsMatch /\ destsMatch

\* the text "<h>h <m>m ago" / "<m>m ago", kept as its numbers; the other
\* texts of cacheAge are kept as [text |-> ...]
getCacheAge(cache) ==
    IF ~IsSome(cache) THEN [text |-> ""]
    ELSE LET ageMs == search.now - Get(cache).timestamp
             ageMinutes == ageMs \div (60 * 1000)
             ageHours == ageMinutes \div 60
         IN  IF ageHours > 0 THEN [hours |-> ageHours, minutes |-> ageMinutes % 60]
             ELSE [minutes |-> ageMinutes]

\* the CachedData written by setCache
CachedData(flights, source, origins, destinations) ==
    [flights |-> flights, timestamp |-> search.now, source |-> source,
     origins |-> origins, destinations |-> destinations]

\* a call of searchFlights: its arguments, where it is waiting ("api", "mock"
\* or "done"), and what it has done so far (the services it has requested,
\* whether it wrote the cache, what it set flights and dataSource to)
SearchCall(req, forceRefresh, stage, requested, result) ==
    [origins |-> req.origins, destinations |-> req.destinations,
     forceRefresh |-> forceRefresh, stage |-> stage, requested |-> requested,
     wroteCache |-> FALSE, result |-> result]

InitSearch ==
    /\ catalog = ReferenceCatalog
    /\ call = [op |-> "none"]
    /\ ret = << >>
    /\ firstAnalysis = None
    /\ alerting = Unmounted
    /\ search \in {useFlightSearch(None, k) : k \in BOOLEAN}

\* searchFlights up to its first await (lines 104-134 or 104-168)
SearchFlights(req, forceRefresh) ==
    /\ Len(search.calls) < MaxCalls
    /\ LET cache == search.storage
       IN  IF ~forceRefresh /\ isCacheValid(cache, req.origins, req.destinations)
           THEN search' = [search EXCEPT
                    !.error = None,
                    !.flights = Get(cache).flights,
                    !.dataSource = "cache",
                    !.cacheAge = getCacheAge(cache),
                    !.isLoading = FALSE,
                    !.calls = Append(@, SearchCall(req, forceRefresh, "done", {},
                                  Some([flights |-> Get(cache).flights,
                                        dataSource |-> "cache"])))]
           ELSE IF search.hasRealApiKey
           THEN search' = [search EXCEPT
                    !.isLoading = TRUE,
                    !.error = None,
                    !.calls = Append(@, SearchCall(req, forceRefresh, "api", {"api"}, None))]
           ELSE search' = [search EXCEPT
                    !.isLoading = TRUE,
                    !.error = None,
                    !.calls = Append(@, SearchCall(req, forceRefresh, "mock", {"mock"}, None)),
                    !.mockTimers = Append(@, Len(search.calls) + 1)]
    /\ UNCHANGED <<catalog, call, ret, firstAnalysis, alerting>>

\* the await of searchFlightsMultipleDates settles for call id (lines 136-165)
ApiSettles(id, outcome) ==
    /\ id \in 1..Len(search.calls)
    /\ search.calls[id].stage = "api"
    /\ LET c == search.calls[id]
       IN  IF outcome = "flights"
           THEN search' = [search EXCEPT
                    !.storage = Some(CachedData(ApiFlights(id), "api",
                                                c.origins, c.destinations)),
                    !.flights = ApiFlights(id),
                    !.dataSource = "api",
                    !.cacheAge = [text |-> "Just now"],
                    !.isLoading = FALSE,
                    !.calls[id].stage = "done",
                    !.calls[id].wroteCache = TRUE,
                    !.calls[id].result = Some([flights |-> ApiFlights(id),
                                               dataSource |-> "api"])]
           ELSE search' = [search EXCEPT
                    !.error = IF outcome = "API_QUOTA_EXCEEDED"
                              THEN Some("API quota exceeded for this month. Showing sample data.")
                              ELSE IF outcome = "API_KEY_INVALID"
                              THEN Some("Invalid API key. Showing sample data.")
                              ELSE @,
                    !.calls[id].stage = "mock",
                    !.calls[id].requested = @ \cup {"mock"},
                    !.mockTimers = Append(@, id)]
    /\ UNCHANGED <<catalog, call, ret, firstAnalysis, alerting>>

\* the await of fetchFlightDeals resolves (lines 168-190); its timers all last
\* 1500 ms, so they fire in the order they were set.  fetchFlightDeals never
\* rejects and setCache swallows its errors: the catch of line 183 is not taken.
MockResolves ==
    /\ search.mockTimers # << >>
    /\ LET id == Head(search.mockTimers)
           c == search.calls[id]
           mockFlights == MockFlights(id)
       IN  search' = [search EXCEPT
                    !.storage = Some(CachedData(mockFlights, "mock",
                                                c.origins, c.destinations)),
                    !.flights = mockFlights,
                    !.dataSource = "mock",
                    !.cacheAge = [text |-> "Just now"],
                    !.isLoading = FALSE,
                    !.mockTimers = Tail(@),
                    !.calls[id].stage = "done",
                    !.calls[id].wroteCache = TRUE,
                    !.calls[id].result = Some([flights |-> mockFlights,
                                               dataSource |-> "mock"])]
    /\ UNCHANGED <<catalog, call, ret, firstAnalysis, alerting>>

\* clearCache (lines 94-97)
ClearCache ==
    /\ search' = [search EXCEPT !.storage = None, !.cacheAge = [text |-> ""]]
    /\ UNCHANGED <<catalog, call, ret, firstAnalysis, alerting>>

\* time passes.  The awaited services settle within seconds (the mock after
\* 1500 ms), far below the six hours of a tick, so the clock is seen to
\* advance only while no call is in flight.
Tick ==
    /\ search.now < MaxTicks * TickMs
    /\ \A id \in 1..Len(search.calls) : search.calls[id].stage = "done"
    /\ search' = [search EXCEPT !.now = @ + TickMs]
    /\ UNCHANGED <<catalog, call, ret, firstAnalysis, alerting>>

NextSearch ==
    \/ \E req \in Requests, forceRefresh \in BOOLEAN : SearchFlights(req, forceRefresh)
    \/ \E id \in 1..MaxCalls, outcome \in ApiOutcomes : ApiSettles(id, outcome)
    \/ MockResolves
    \/ ClearCache
    \/ Tick

SpecSearch == InitSearch /\ [][NextSearch]_vars

\* ------------------------------- hooks/usePriceAlerts.ts, utils/priceChecker.ts

\* setFlights is called at most MaxLoads times in a behaviour
MaxLoads == 2

\* dates are day numbers; prices are dollars
Offer(origin, destination, date, price) ==
    [origin |-> origin, destination |-> destination, date |-> date,
     price |-> price, airline |-> "American"]

\* the offers a search may return: a watched city pair on two dates at two
\* prices, and a pair nobody watches
WatchOffers ==
    {Offer("DCA", "MIA", date, price) : date \in 1..2, price \in {Dollars(90), Dollars(150)}}
        \cup {Offer("IAD", "FLL", 1, Dollars(90))}

\* the non-empty arrays handed to setFlights
LoadedFlights == UNION {[1..n -> WatchOffers] : n \in 1..MaxFlights}

\* the WatchedRoute built by addWatch
WatchedRoute(id, origin, destination, dateFrom, dateTo, targetPrice) ==
    [id |-> id, origin |-> origin, destination |-> destination,
     dateFrom |-> dateFrom, dateTo |-> dateTo, targetPrice |-> targetPrice,
     lastChecked |-> FALSE, lastPrice |-> None, lowestPrice |-> None]

\* the watch lists found in localStorage at mount: none, one route over both
\* dates, and with it a second route for the same city pair on the second date
StoredWatchLists ==
    { << >>,
      << WatchedRoute("r1", "DCA", "MIA", 1, 2, Dollars(150)) >>,
      << WatchedRoute("r1", "DCA", "MIA", 1, 2, Dollars(150)),
         WatchedRoute("r2", "DCA", "MIA", 2, 2, Dollars(100)) >> }

MathMin(a, b) == IF a < b THEN a ELSE b
MathMax(a, b) == IF a > b THEN a ELSE b

\* a || b on number | null operands: null and 0 are falsy
OrElse(a, b) == IF IsSome(a) /\ Get(a) # 0 THEN a ELSE b

getRouteKey(origin, destination, date) == <<origin, destination, date>>

isDateInRange(flightDate, dateFrom, dateTo) ==
    flightDate >= dateFrom /\ flightDate <= dateTo

\* the keys of the price history, and the history with no entries
HistoryKeys == {getRouteKey(f.origin, f.destination, f.date) : f \in WatchOffers}
NoHistory == [key \in HistoryKeys |-> None]

\* the elements of a set of indices, in ascending order
InOrder(S) ==
    [n \in 1..Cardinality(S) |-> CHOOSE i \in S : Cardinality({j \in S : j < i}) = n - 1]

\* flights.reduce of lines 123-129: the cheapest flight of every key (the
\* first of them, a later flight replaces only a dearer one), the keys in the
\* order of their first flight (the order of Object.entries)
flightsByRoute(flights) ==
    LET keyOf(i) == getRouteKey(flights[i].origin, flights[i].destination, flights[i].date)
        firsts == {i \in 1..Len(flights) : \A j \in 1..(i - 1) : keyOf(j) # keyOf(i)}
        cheapest(i) ==
            CHOOSE j \in 1..Len(flights) :
                /\ keyOf(j) = keyOf(i)
                /\ \A k \in 1..Len(flights) :
                       keyOf(k) = keyOf(i) =>
                           \/ flights[j].price < flights[k].price
                           \/ flights[j].price = flights[k].price /\ j <= k
    IN  [n \in 1..Cardinality(firsts) |-> flights[cheapest(InOrder(firsts)[n])]]

\* lines 133-148: the first of the cheapest matching flights, or null
bestFlightFor(route, byRoute) ==
    LET matching == {i \in 1..Len(byRoute) :
                         /\ byRoute[i].origin = route.origin
                         /\ byRoute[i].destination = route.destination
                         /\ isDateInRange(byRoute[i].date, route.dateFrom, route.dateTo)}
    IN  IF matching = {} THEN None
        ELSE Some(byRoute[CHOOSE i \in matching :
                      \A j \in matching :
                          \/ byRoute[i].price < byRoute[j].price
                          \/ byRoute[i].price = byRoute[j].price /\ i <= j])

\* lines 162-164: the amount saved against the previous entry, or against the
\* last price (else the target) of the route
savedAmountFor(previousEntry, route, lowestPriceForRoute) ==
    IF IsSome(previousEntry) THEN Get(previousEntry).price - lowestPriceForRoute
    ELSE Get(OrElse(route.lastPrice, Some(route.targetPrice))) - lowestPriceForRoute

\* a test that lets every price at or under the target alert
alertDueOnTarget(previousEntry, route, lowestPriceForRoute) == TRUE

\* lines 160 and 166: a price under the previous entry (or with no previous
\* entry) that saves something
alertDue(previousEntry, route, lowestPriceForRoute) ==
    /\ ~IsSome(previousEntry) \/ Get(previousEntry).price > lowestPriceForRoute
    /\ savedAmountFor(previousEntry, route, lowestPriceForRoute) > 0

\* the alert pushed at lines 167-176
newAlert(previousEntry, route, bestFlight) ==
    [routeId |-> route.id, origin |-> route.origin, destination |-> route.destination,
     date |-> bestFlight.date,
     previousPrice |-> Get(OrElse(IF IsSome(previousEntry)
                                  THEN Some(Get(previousEntry).price) ELSE None,
                                  OrElse(route.lastPrice, Some(route.targetPrice)))),
     currentPrice |-> bestFlight.price,
     savedAmount |-> MathMax(0, savedAmountFor(previousEntry, route, bestFlight.price)),
     airline |-> bestFlight.airline]

\* the one element of a set: a value that is computed once
TheOne(S) == CHOOSE x \in S : TRUE

\* lines 123-148 for every watched route: its best flight, or null
bestFlights(flights, watchedRoutes) ==
    TheOne({ [k \in 1..Len(watchedRoutes) |-> bestFlightFor(watchedRoutes[k], byRoute)] :
             byRoute \in {flightsByRoute(flights)} })

\* watchedRoutes.forEach of lines 132-189 told route by route, given the best
\* flight of every route.  found are the routes with a matching flight (line
\* 150), onTarget those at or under their target (line 155); every route reads
\* the history as it was stored before the check (line 158), and the last
\* route to write a key of the history wins (line 181).
checkRoutes(watchedRoutes, priceHistory, best) ==
    LET bestFlight(k) == Get(best[k])
        historyKey(k) == getRouteKey(watchedRoutes[k].origin, watchedRoutes[k].destination,
                                     bestFlight(k).date)
        found == {k \in 1..Len(watchedRoutes) : IsSome(best[k])}
        onTarget == {k \in found : bestFlight(k).price <= watchedRoutes[k].targetPrice}
        alerted == {k \in onTarget :
                        alertDue(priceHistory[historyKey(k)], watchedRoutes[k],
                                 bestFlight(k).price)}
    IN  [newAlerts |->
             [n \in 1..Cardinality(alerted) |->
                 LET k == InOrder(alerted)[n]
                 IN  newAlert(priceHistory[historyKey(k)], watchedRoutes[k], bestFlight(k))],
         updatedRoutes |->
             [n \in 1..Cardinality(found) |->
                 LET k == InOrder(found)[n]
                 IN  [routeId |-> watchedRoutes[k].id, price |-> bestFlight(k).price]],
         updatedHistory |->
             [key \in HistoryKeys |->
                 LET writers == {k \in onTarget : historyKey(k) = key}
                 IN  IF writers = {} THEN priceHistory[key]
                     ELSE LET k == CHOOSE w \in writers : \A v \in writers : v <= w
                          IN  Some([routeKey |-> key, price |-> bestFlight(k).price,
                                    airline |-> bestFlight(k).airline])]]

\* the result of the check, with the history it saves at line 192
checkPricesAgainstWatched(flights, watchedRoutes, priceHistory) ==
    TheOne({ checkRoutes(watchedRoutes, priceHistory, best) :
             best \in {bestFlights(flights, watchedRoutes)} })

\* usePriceAlerts.updateRoutePrice: what the route with the given id becomes
updateRoutePrice(route, price) ==
    [route EXCEPT
        !.lastChecked = TRUE,
        !.lastPrice = Some(price),
        !.lowestPrice = IF ~IsSome(route.lowestPrice) THEN Some(price)
                        ELSE Some(MathMin(Get(route.lowestPrice), price))]

\* updatedRoutes.forEach(updateRoutePrice): the check pushes at most one
\* update for a route, and the ids of the routes differ
updateRoutePrices(prev, updatedRoutes) ==
    [k \in 1..Len(prev) |->
        LET mine == {n \in 1..Len(updatedRoutes) : updatedRoutes[n].routeId = prev[k].id}
        IN  IF mine = {} THEN prev[k]
            ELSE updateRoutePrice(prev[k], updatedRoutes[CHOOSE n \in mine : TRUE].price)]

\* newAlerts.forEach(addAlert): each alert is put in front of the list
addAlerts(prev, newAlerts) ==
    [n \in 1..Len(newAlerts) |-> newAlerts[Len(newAlerts) + 1 - n]] \o prev

\* the array a state setter installs is never the one it replaces: its
\* identity is kept as one of two tokens
NewArray(ref) == 1 - ref

\* the dependencies of the price-check effect that change in a behaviour
EffectDeps == <<alerting.flightsRef, alerting.routesRef>>

\* React runs the effect after a render whose dependencies differ from those
\* of its last run, and after the first render
EffectScheduled ==
    /\ alerting # Unmounted
    /\ alerting.effectDeps # Some(EffectDeps)

\* the App after its first render: no flights, the stored watch list and
\* alerts, an empty price history.  lastBest keeps, for every route, the date
\* and price of the best flight its last check found.
usePriceAlerts(stored) ==
    [flights |-> << >>, flightsRef |-> 0, loads |-> 0,
     watchedRoutes |-> stored, routesRef |-> 0,
     alerts |-> << >>, priceHistory |-> NoHistory,
     effectDeps |-> None,
     lastBest |-> [id \in {"r1", "r2"} |-> None]]

InitAlerts ==
    /\ catalog = ReferenceCatalog
    /\ call = [op |-> "none"]
    /\ ret = << >>
    /\ firstAnalysis = None
    /\ search = Unmounted
    /\ alerting \in {usePriceAlerts(stored) : stored \in StoredWatchLists}

\* setFlights with the result of a search
LoadFlights(flights) ==
    /\ alerting.loads < MaxLoads
    /\ alerting' = [alerting EXCEPT
                       !.flights = flights,
                       !.flightsRef = NewArray(@),
                       !.loads = @ + 1]
    /\ UNCHANGED <<catalog, call, ret, firstAnalysis, search>>

\* one run of the price-check effect of the App (part_002 lines 63-87)
RunEffect ==
    /\ EffectScheduled
    /\ IF alerting.flights = << >> \/ alerting.watchedRoutes = << >>
       THEN alerting' = [alerting EXCEPT !.effectDeps = Some(EffectDeps)]
       ELSE \E result \in {checkPricesAgainstWatched(alerting.flights,
                               alerting.watchedRoutes, alerting.priceHistory)},
               best \in {bestFlights(alerting.flights, alerting.watchedRoutes)} :
                alerting' = [alerting EXCEPT
                    !.effectDeps = Some(EffectDeps),
                    !.priceHistory = result.updatedHistory,
                    !.watchedRoutes = updateRoutePrices(@, result.updatedRoutes),
                    !.routesRef = IF result.updatedRoutes = << >> THEN @ ELSE NewArray(@),
                    !.alerts = addAlerts(@, result.newAlerts),
                    !.lastBest = [id \in DOMAIN @ |->
                        LET mine == {k \in 1..Len(best) :
                                         /\ alerting.watchedRoutes[k].id = id
                                         /\ IsSome(best[k])}
                        IN  IF mine = {} THEN @[id]
                            ELSE LET flight == Get(best[CHOOSE k \in mine : TRUE])
                                 IN  Some([date |-> flight.date, price |-> flight.price])]]
    /\ UNCHANGED <<catalog, call, ret, firstAnalysis, search>>

NextAlerts ==
    \/ \E flights \in LoadedFlights : LoadFlights(flights)
    \/ RunEffect

SpecAlerts == InitAlerts /\ [][NextAlerts]_vars

\* React runs every effect it has scheduled
FairSpecAlerts == SpecAlerts /\ WF_vars(RunEffect)

\* -------------------------------------------------------------- properties
Called(op) == call.op = op
\* the position of a partner in the catalog array
CatalogIndex(partner) ==
    CHOOSE k \in 1..Len(catalog.partners) : catalog.partners[k] = partner
CppGeq(o, k100) == 100 * o.cpp.n >= k100 * o.cpp.d
SameCpp(a, b) == CmpFrac(a.cpp.n, a.cpp.d, b.cpp.n, b.cpp.d) = 0

\* C1: the list returned by calculateAllRedemptions is ordered by
\* non-increasing CPP, and entries of equal CPP keep the order in which their
\* partners are declared in the catalog.
C1_SortedStable ==
    Called("calculateAllRedemptions") =>
        \A i, j \in 1..Len(ret) :
            i < j =>
                /\ CmpFrac(ret[i].cpp.n, ret[i].cpp.d, ret[j].cpp.n, ret[j].cpp.d) >= 0
                /\ SameCpp(ret[i], ret[j]) =>
                       CatalogIndex(ret[i].partner) < CatalogIndex(ret[j].partner)

\* MR / Economy on the reference catalog: AAdvantage and JetBlue both need
\* 7500 source points and AAdvantage, declared first, stays first
C1_Witness ==
    /\ Called("calculateAllRedemptions")
    /\ catalog = ReferenceCatalog
    /\ call.program = "MR" /\ call.flight.cabin = "Economy"
    /\ call.flight.price = Dollars(500)
    /\ \E i \in 1..(Len(ret) - 1) :
           /\ ret[i].partner.id = "aadvantage" /\ ret[i + 1].partner.id = "jetblue"
           /\ ret[i].sourcePoints = 7500 /\ ret[i + 1].sourcePoints = 7500
           /\ SameCpp(ret[i], ret[i + 1])
    /\ ~SameCpp(ret[1], ret[Len(ret)])

\* the rule of the ordered policy a-f that decides for `best`
RuleOf(flight, best) ==
    IF best.isSweetSpot /\ CppGeq(best, 150) THEN "a"
    ELSE IF CppGeq(best, 200) THEN "b"
    ELSE IF CppGeq(best, 150) THEN "c"
    ELSE IF \/ flight.cabin = "Economy" /\ flight.price < Dollars(150)
            \/ flight.cabin = "First" /\ flight.price < Dollars(400) THEN "d"
    ELSE IF CppGeq(best, 100) THEN "e"
    ELSE "f"

AnalyzedWithPartner ==
    Called("analyzeFlightRedemption") /\ Len(ret.allRedemptions) > 0

\* C2: with at least one eligible partner, bestOption follows the ordered
\* rules a-f applied to the top-ranked option: POINTS by a, b and c, CASH by d
\* (before the CPP >= 1.0 rule; a price of exactly 150 / 400 is no cash deal),
\* by e POINTS exactly when savingsVsCash > 0, CASH by f.
C2_DecisionPolicy ==
    AnalyzedWithPartner =>
        LET best == ret.allRedemptions[1]
            rule == RuleOf(call.flight, best)
        IN  /\ ret.bestRedemption = Some(best)
            /\ rule \in {"a", "b", "c"} => ret.bestOption = "POINTS"
            /\ rule = "d" => ret.bestOption = "CASH"
            /\ rule = "e" => (ret.bestOption = "POINTS" <=> best.savingsVsCash > 0)
            /\ rule = "e" => (ret.bestOption = "CASH" <=> best.savingsVsCash <= 0)
            /\ rule = "f" => ret.bestOption = "CASH"

\* an Economy flight at exactly 150 whose best CPP is in [1.0, 1.5) with
\* positive savings: not a cash deal, rule e answers POINTS
C2_Witness ==
    /\ AnalyzedWithPartner
    /\ call.flight = [price |-> Dollars(150), cabin |-> "Economy"]
    /\ CppGeq(ret.allRedemptions[1], 100) /\ ~CppGeq(ret.allRedemptions[1], 150)
    /\ ret.allRedemptions[1].savingsVsCash > 0
    /\ ret.bestOption = "POINTS"

\* C3: savingsAmount is best.savingsVsCash, sign kept, when best.cpp >= 1.5
\* (rules a, b, c) and its absolute value otherwise (rules d, e, f); it is 0
\* only without a partner or when best.savingsVsCash is 0.
C3_SavingsAmount ==
    Called("analyzeFlightRedemption") =>
        IF Len(ret.allRedemptions) = 0 THEN ret.savingsAmount = 0
        ELSE LET best == ret.allRedemptions[1]
                 rule == RuleOf(call.flight, best)
             IN  /\ (rule \in {"a", "b", "c"}) <=> CppGeq(best, 150)
                 /\ rule \in {"a", "b", "c"} => ret.savingsAmount = best.savingsVsCash
                 /\ rule \in {"d", "e", "f"} =>
                        /\ ret.savingsAmount >= 0
                        /\ ret.savingsAmount \in {best.savingsVsCash, -best.savingsVsCash}
                 /\ ret.savingsAmount = 0 => best.savingsVsCash = 0

\* rule d with a negative savingsVsCash: the amount reported is its absolute value
C3_Witness ==
    /\ AnalyzedWithPartner
    /\ RuleOf(call.flight, ret.allRedemptions[1]) = "d"
    /\ ret.allRedemptions[1].savingsVsCash < 0
    /\ ret.savingsAmount = -ret.allRedemptions[1].savingsVsCash

\* C4: the balance never changes the decision: analyzeFlightRedemption with
\* any other userPointsBalance (absent included) returns the same bestOption,
\* bestRedemption, allRedemptions and savingsAmount.
C4_BalanceIndependent ==
    Called("analyzeFlightRedemption") =>
        \A b \in Balances :
            LET other == analyzeFlightRedemption(call.flight, call.program, b)
            IN  /\ other.bestOption = ret.bestOption
                /\ other.bestRedemption = ret.bestRedemption
                /\ other.allRedemptions = ret.allRedemptions
                /\ other.savingsAmount = ret.savingsAmount

\* POINTS recommended to a user whose balance does not cover the best option
C4_Witness ==
    /\ AnalyzedWithPartner
    /\ IsSome(call.balance)
    /\ Get(call.balance) < ret.allRedemptions[1].sourcePoints
    /\ ret.bestOption = "POINTS"
    /\ analyzeFlightRedemption(call.flight, call.program, None).bestOption = "POINTS"
    /\ analyzeFlightRedemption(call.flight, call.program, None).recommendation
           # ret.recommendation

\* C5: the text carries a shortfall note exactly when rule a decides and a
\* balance below best.sourcePoints is supplied; the amount is
\* best.sourcePoints - userPointsBalance > 0; in every other case the text is
\* the one produced with no balance.
C5_ShortfallNote ==
    Called("analyzeFlightRedemption") =>
        LET noBalance == analyzeFlightRedemption(call.flight, call.program, None)
            note == ret.recommendation.need
        IN  IF Len(ret.allRedemptions) = 0
            THEN note = None /\ ret.recommendation = noBalance.recommendation
            ELSE LET best == ret.allRedemptions[1]
                     short == /\ RuleOf(call.flight, best) = "a"
                              /\ IsSome(call.balance)
                              /\ Get(call.balance) < best.sourcePoints
                 IN  /\ IsSome(note) <=> short
                     /\ short => /\ Get(note) = best.sourcePoints - Get(call.balance)
                                 /\ Get(note) > 0
                                 /\ [ret.recommendation EXCEPT !.need = None]
                                        = noBalance.recommendation
                     /\ ~short => ret.recommendation = noBalance.recommendation

\* MR / Economy on the reference catalog with 5000 points: 2500 more are needed
C5_Witness ==
    /\ Called("analyzeFlightRedemption")
    /\ catalog = ReferenceCatalog
    /\ call.program = "MR" /\ call.flight.cabin = "Economy"
    /\ call.balance = Some(5000)
    /\ ret.recommendation.need = Some(2500)
    /\ ret.bestOption = "POINTS"

\* no partner of the catalog lists the program among its programs
NobodyAccepts(program) ==
    \A k \in 1..Len(catalog.partners) :
        \A m \in 1..Len(catalog.partners[k].programs) :
            catalog.partners[k].programs[m] # program

\* C6: when no partner accepts the program, analyzeFlightRedemption returns
\* CASH, bestRedemption null, no redemptions, savingsAmount 0, the flight's
\* price and the fixed narrative; calculateAllRedemptions returns the empty
\* list and getBestRedemption null.
C6_NoPartner ==
    NobodyAccepts(call.program) =>
        /\ Called("calculateAllRedemptions") => ret = << >>
        /\ Called("getBestRedemption") => ret = None
        /\ Called("analyzeFlightRedemption") =>
               /\ DOMAIN ret = {"cashPrice", "bestOption", "bestRedemption",
                                "allRedemptions", "recommendation", "savingsAmount"}
               /\ ret.bestOption = "CASH"
               /\ ret.bestRedemption = None
               /\ ret.allRedemptions = << >>
               /\ ret.savingsAmount = 0
               /\ ret.cashPrice = call.flight.price
               /\ ret.recommendation.wording
                      = "No transfer partners available for this program."
               /\ \A part \in {"partner", "cpp", "description", "savings", "need"} :
                      ret.recommendation[part] = None

\* a program nobody accepts, analysed for a flight with a positive price
C6_Witness ==
    /\ Called("analyzeFlightRedemption")
    /\ NobodyAccepts(call.program)
    /\ call.flight.price > 0
    /\ ret.bestOption = "CASH" /\ ret.bestRedemption = None /\ ret.savingsAmount = 0

\* C7: sourcePoints = ceil(partnerPoints / transferRatio), an integer >= 0,
\* >= partnerPoints when the ratio is below 1 and equal to it when the ratio is 1.
C7_SourcePointsCeil ==
    Called("calculateAllRedemptions") =>
        \A i \in 1..Len(ret) :
            LET o == ret[i]
            IN  /\ o.sourcePoints \in Nat
                /\ o.transferRatio > 0
                /\ o.sourcePoints * o.transferRatio >= o.partnerPoints * RatioScale
                /\ (o.sourcePoints - 1) * o.transferRatio < o.partnerPoints * RatioScale
                /\ o.transferRatio < RatioScale => o.sourcePoints >= o.partnerPoints
                /\ o.transferRatio = RatioScale => o.sourcePoints = o.partnerPoints

\* a ratio of 0.8 and 7001 partner points: 8751.25 is rounded up to 8752
C7_Witness ==
    /\ Called("calculateAllRedemptions")
    /\ \E i \in 1..Len(ret) :
           /\ ret[i].transferRatio = 80
           /\ ret[i].partnerPoints = 7001 /\ ret[i].sourcePoints = 8752
    /\ \E i \in 1..Len(ret) :
           ret[i].transferRatio = RatioScale /\ ret[i].sourcePoints = ret[i].partnerPoints

\* C8: the CPP is exactly 0 when sourcePoints is 0, whatever the price and the
\* taxes, with no division by zero (a finite value); for sourcePoints > 0 it is
\* ((cashPrice - taxes) / sourcePoints) * 100.
C8_CppFormula ==
    Called("calculateAllRedemptions") =>
        \A i \in 1..Len(ret) :
            LET o == ret[i]
            IN  /\ o.cpp.d > 0
                /\ o.sourcePoints = 0 => o.cpp.n = 0
                /\ o.sourcePoints > 0 =>
                       \* cpp / 100 = ((price - taxes) / MoneyScale) / sourcePoints
                       CmpFrac(o.cpp.n, o.cpp.d * 100,
                               call.flight.price - o.taxes, o.sourcePoints * MoneyScale) = 0

\* an award of 0 points on a flight whose price differs from the taxes
C8_Witness ==
    /\ Called("calculateAllRedemptions")
    /\ \E i \in 1..Len(ret) :
           /\ ret[i].sourcePoints = 0
           /\ call.flight.price > ret[i].taxes
           /\ ret[i].cpp.n = 0
    /\ \E i \in 1..Len(ret) : ret[i].sourcePoints > 0 /\ ret[i].cpp.n > 0

Min(S) == CHOOSE x \in S : \A y \in S : x <= y

\* C9: the option uses the points, taxes and description of the first sweet
\* spot of the partner's list whose cabin is the flight's, with isSweetSpot
\* true; without one, the saver price of the cabin, taxes 5.60, isSweetSpot
\* false and no description.  A Business sweet spot never matches.
C9_SweetSpotOverride ==
    Called("calculateAllRedemptions") =>
        \A i \in 1..Len(ret) :
            LET o == ret[i]
                spots == o.partner.sweetSpots
                hits == {k \in 1..Len(spots) : spots[k].cabin = call.flight.cabin}
            IN  /\ hits # {} =>
                       /\ o.partnerPoints = spots[Min(hits)].points
                       /\ o.taxes = spots[Min(hits)].taxes
                       /\ o.isSweetSpot = TRUE
                       /\ o.sweetSpotDescription = Some(spots[Min(hits)].description)
                       /\ spots[Min(hits)].cabin # "Business"
                /\ hits = {} =>
                       /\ o.partnerPoints =
                              (IF call.flight.cabin = "Economy"
                               THEN o.partner.domesticEconomy.saver
                               ELSE o.partner.domesticFirst.saver)
                       /\ o.taxes = Cents(560)
                       /\ o.isSweetSpot = FALSE
                       /\ o.sweetSpotDescription = None

\* a partner whose list starts with a Business sweet spot followed by two
\* Economy ones, on an Economy flight: the second entry is used
C9_Witness ==
    /\ Called("calculateAllRedemptions")
    /\ call.flight.cabin = "Economy"
    /\ \E i \in 1..Len(ret) :
           /\ Len(ret[i].partner.sweetSpots) = 3
           /\ ret[i].partner.sweetSpots[1].cabin = "Business"
           /\ ret[i].partner.sweetSpots[3].cabin = "Economy"
           /\ ret[i].isSweetSpot
           /\ ret[i].partnerPoints = ret[i].partner.sweetSpots[2].points
           /\ ret[i].partnerPoints # ret[i].partner.sweetSpots[3].points
           /\ ret[i].taxes = Cents(1120)
    /\ \E i \in 1..Len(ret) : ~ret[i].isSweetSpot

TierRank(tier) ==
    CASE tier = "EXCELLENT" -> 3 [] tier = "GOOD" -> 2 [] tier = "FAIR" -> 1 [] tier = "POOR" -> 0

\* C10: the tier is a function of the CPP alone: EXCELLENT iff cpp >= 2.0,
\* GOOD iff 1.5 <= cpp < 2.0, FAIR iff 1.0 <= cpp < 1.5, POOR iff cpp < 1.0;
\* so tiers never improve going down the ranked list.
C10_Tiers ==
    Called("calculateAllRedemptions") =>
        /\ \A i \in 1..Len(ret) :
               LET o == ret[i]
               IN  /\ o.recommendation = "EXCELLENT" <=> o.cpp.n >= 2 * o.cpp.d
                   /\ o.recommendation = "GOOD" <=>
                          (2 * o.cpp.n >= 3 * o.cpp.d /\ o.cpp.n < 2 * o.cpp.d)
                   /\ o.recommendation = "FAIR" <=>
                          (o.cpp.n >= o.cpp.d /\ 2 * o.cpp.n < 3 * o.cpp.d)
                   /\ o.recommendation = "POOR" <=> o.cpp.n < o.cpp.d
        /\ \A i, j \in 1..Len(ret) :
               i < j => TierRank(ret[i].recommendation) >= TierRank(ret[j].recommendation)

\* a CPP of exactly 2.0 is EXCELLENT, and the list goes down to a lower tier
C10_Witness ==
    /\ Called("calculateAllRedemptions")
    /\ Len(ret) > 1
    /\ ret[1].cpp.n = 2 * ret[1].cpp.d
    /\ ret[1].recommendation = "EXCELLENT"
    /\ ret[Len(ret)].recommendation \in {"GOOD", "FAIR", "POOR"}

\* C11: totalCost = sourcePoints * (V / 100) + taxes and savingsVsCash =
\* price - totalCost, V being the valuationCPP of the user's source program
\* (not the partner's, not the achieved CPP); so totalCost + savingsVsCash is
\* the flight's price.
C11_TotalCostAndSavings ==
    Called("calculateAllRedemptions") =>
        \A i \in 1..Len(ret) :
            LET o == ret[i]
                V == catalog.programs[call.program].valuationCPP
            IN  /\ o.totalCost = o.sourcePoints * V + o.taxes
                /\ o.savingsVsCash = call.flight.price - o.totalCost
                /\ o.totalCost + o.savingsVsCash = call.flight.price

\* Avianca under MR at 500: 10000 points at 2.0 cents plus 5.60 is 205.60,
\* although Avianca's own valuation is 1.4 and the CPP achieved is 4.944
C11_Witness ==
    /\ Called("calculateAllRedemptions")
    /\ catalog = ReferenceCatalog /\ call.program = "MR"
    /\ call.flight = [price |-> Dollars(500), cabin |-> "Economy"]
    /\ \E i \in 1..Len(ret) :
           /\ ret[i].partner.id = "avianca"
           /\ ret[i].partner.valuationCPP = 140
           /\ ret[i].totalCost = Cents(20560)
           /\ ret[i].savingsVsCash = Cents(29440)

\* the indices of the catalog partners that list the program
EligibleIdx(program) ==
    {k \in 1..Len(catalog.partners) :
        \E m \in 1..Len(catalog.partners[k].programs) :
            catalog.partners[k].programs[m] = program}

\* C12: getPartnersForProgram returns exactly the catalog partners accepting
\* the program, each once, in declaration order; calculateAllRedemptions
\* returns exactly one option per such partner and none for any other.
C12_EligiblePartners ==
    /\ Called("getPartnersForProgram") =>
           /\ Len(ret) = Cardinality(EligibleIdx(call.program))
           /\ \A i \in 1..Len(ret) : CatalogIndex(ret[i]) \in EligibleIdx(call.program)
           /\ \A k \in EligibleIdx(call.program) :
                  \E i \in 1..Len(ret) : ret[i] = catalog.partners[k]
           /\ \A i, j \in 1..Len(ret) :
                  i < j => CatalogIndex(ret[i]) < CatalogIndex(ret[j])
    /\ Called("calculateAllRedemptions") =>
           /\ Len(ret) = Cardinality(EligibleIdx(call.program))
           /\ \A i \in 1..Len(ret) :
                  CatalogIndex(ret[i].partner) \in EligibleIdx(call.program)
           /\ \A k \in EligibleIdx(call.program) :
                  \E i \in 1..Len(ret) : ret[i].partner = catalog.partners[k]
           /\ \A i, j \in 1..Len(ret) : i # j => ret[i].partner # ret[j].partner

\* UR on the reference catalog: eight of the nine partners, Delta left out
C12_Witness ==
    /\ Called("getPartnersForProgram")
    /\ catalog = ReferenceCatalog /\ call.program = "UR"
    /\ Len(ret) = 8
    /\ Len(ret) < Len(catalog.partners)
    /\ \A i \in 1..Len(ret) : ret[i].id # "delta"
    /\ ret[1].id = "avianca" /\ ret[8].id = "air-france-klm"

\* the sign of the difference of the effective saver costs of catalog partners
\* j and k: saver points of the cabin over the ratio for the program (1.0 when
\* the partner declares none, or 0)
CmpEffective(j, k, program, cabin) ==
    LET pj == catalog.partners[j]
        pk == catalog.partners[k]
        saver(q) == IF cabin = "Economy" THEN q.domesticEconomy.saver
                    ELSE q.domesticFirst.saver
        ratio(q) == IF program \in DOMAIN q.transferRatios /\ q.transferRatios[program] # 0
                    THEN q.transferRatios[program] ELSE RatioScale
    IN  CmpFrac(saver(pj) * RatioScale, ratio(pj), saver(pk) * RatioScale, ratio(pk))

\* C13: getBestDomesticPartner returns null when no partner accepts the
\* program; otherwise the eligible partner of smallest effective saver cost,
\* and among equals the one declared first.  Sweet spots play no part.
C13_BestDomesticPartner ==
    Called("getBestDomesticPartner") =>
        LET E == EligibleIdx(call.program)
            cabin == call.flight.cabin
        IN  IF E = {} THEN ret = None
            ELSE \E k \in E :
                    /\ ret = Some(catalog.partners[k])
                    /\ \A j \in E :
                           /\ CmpEffective(k, j, call.program, cabin) <= 0
                           /\ CmpEffective(k, j, call.program, cabin) = 0 => k <= j

\* MR / Economy on the reference catalog: JetBlue (6000 / 0.8 = 7500) is the
\* best domestic partner, although AAdvantage's sweet spot (7500, declared
\* first) leads the ranked redemptions
C13_Witness ==
    /\ Called("getBestDomesticPartner")
    /\ catalog = ReferenceCatalog
    /\ call.program = "MR" /\ call.flight.cabin = "Economy"
    /\ IsSome(ret) /\ Get(ret).id = "jetblue"
    /\ LET ranked == calculateAllRedemptions(call.flight, call.program)
       IN  ranked[1].partner.id = "aadvantage" /\ ranked[1].isSweetSpot

Scenario(program, price, cabin) ==
    /\ catalog = ReferenceCatalog
    /\ call.program = program
    /\ call.flight = [price |-> price, cabin |-> cabin]

\* the option's CPP is exactly n / d
CppIs(o, n, d) == CmpFrac(o.cpp.n, o.cpp.d, n, d) = 0

\* the options of a ranked list that belong to the partner with this id
OptionsOf(options, id) == {i \in 1..Len(options) : options[i].partner.id = id}

\* C16: Scenario A.  For an Economy flight priced 500 under MR, the option of
\* Avianca has transfer ratio 1.0, sourcePoints 10000, CPP 4.944 and
\* isSweetSpot true, and analyzeFlightRedemption decides POINTS through the
\* sweet-spot rule (rule a).
C16_ScenarioA ==
    Scenario("MR", Dollars(500), "Economy") =>
        LET options == IF Called("calculateAllRedemptions") THEN ret
                       ELSE IF Called("analyzeFlightRedemption") THEN ret.allRedemptions
                       ELSE << >>
        IN  /\ (Called("calculateAllRedemptions") \/ Called("analyzeFlightRedemption")) =>
                   /\ Cardinality(OptionsOf(options, "avianca")) = 1
                   /\ \A i \in OptionsOf(options, "avianca") :
                          /\ options[i].transferRatio = RatioScale
                          /\ options[i].sourcePoints = 10000
                          /\ CppIs(options[i], 4944, 1000)
                          /\ options[i].isSweetSpot
            /\ Called("analyzeFlightRedemption") =>
                   /\ ret.bestOption = "POINTS"
                   /\ RuleOf(call.flight, Get(ret.bestRedemption)) = "a"
                   /\ ret.recommendation.wording = "SWEET SPOT! Use _ for _ CPP. _"

\* the analysis of Scenario A, with Avianca's option in the ranked list
C16_Witness ==
    /\ Called("analyzeFlightRedemption")
    /\ Scenario("MR", Dollars(500), "Economy")
    /\ ret.bestOption = "POINTS"
    /\ \E i \in OptionsOf(ret.allRedemptions, "avianca") :
           ret.allRedemptions[i].sourcePoints = 10000 /\ ret.allRedemptions[i].isSweetSpot

\* C17 as stated: Scenario B.  For an Economy flight priced 120 under MR the
\* best partner's CPP is 1.2, the cash-deal check (price < 150) is reached
\* before the CPP >= 1.0 rule, and the result is CASH.
C17_ScenarioB_AsStated ==
    (Called("analyzeFlightRedemption") /\ Scenario("MR", Dollars(120), "Economy")) =>
        /\ IsSome(ret.bestRedemption)
        /\ CppIs(Get(ret.bestRedemption), 12, 10)
        /\ RuleOf(call.flight, Get(ret.bestRedemption)) = "d"
        /\ ret.bestOption = "CASH"

\* C17, amended: for an Economy flight priced 120 under MR the best option is
\* AAdvantage's Web Special (7500 points, a sweet spot) at CPP 572/375 = 1.5253,
\* so the sweet-spot rule matches first and the result is POINTS; the cash-deal
\* check decides CASH, ahead of the CPP >= 1.0 rule, for every Economy flight
\* under 150 whose best CPP is in [1.0, 1.5), as at price 100 under MR
\* (CPP 472/375 = 1.2587).
C17_ScenarioB ==
    Called("analyzeFlightRedemption") =>
        /\ Scenario("MR", Dollars(120), "Economy") =>
               /\ IsSome(ret.bestRedemption)
               /\ Get(ret.bestRedemption).partner.id = "aadvantage"
               /\ Get(ret.bestRedemption).sourcePoints = 7500
               /\ Get(ret.bestRedemption).isSweetSpot
               /\ CppIs(Get(ret.bestRedemption), 572, 375)
               /\ RuleOf(call.flight, Get(ret.bestRedemption)) = "a"
               /\ ret.bestOption = "POINTS"
        /\ Scenario("MR", Dollars(100), "Economy") =>
               /\ IsSome(ret.bestRedemption)
               /\ CppIs(Get(ret.bestRedemption), 472, 375)
        /\ (/\ IsSome(ret.bestRedemption)
            /\ call.flight.cabin = "Economy" /\ call.flight.price < Dollars(150)
            /\ CppGeq(Get(ret.bestRedemption), 100)
            /\ ~CppGeq(Get(ret.bestRedemption), 150)) =>
               /\ ret.bestOption = "CASH"
               /\ ret.recommendation.wording
                      = "Cash deal! This price is too low to justify using points (_ CPP)."

\* the analysis of Scenario B's flight: decided POINTS by the sweet-spot rule,
\* with a negative savingsAmount (the points are worth 155.60, the fare 120)
C17_Witness ==
    /\ Called("analyzeFlightRedemption")
    /\ Scenario("MR", Dollars(120), "Economy")
    /\ ret.bestOption = "POINTS"
    /\ ret.savingsAmount = Cents(12000) - Cents(15560)

\* C18 as stated: Scenario D.  For a First flight priced 380, under every
\* program, the best CPP is 1.05, the sweet-spot, >= 2.0 and >= 1.5 rules do
\* not match, the cash-deal check (First, price < 400) matches and the result
\* is CASH with savingsAmount = abs(best.savingsVsCash).
C18_ScenarioD_AsStated ==
    (/\ Called("analyzeFlightRedemption")
     /\ catalog = ReferenceCatalog
     /\ call.flight = [price |-> Dollars(380), cabin |-> "First"]) =>
        /\ IsSome(ret.bestRedemption)
        /\ CppIs(Get(ret.bestRedemption), 105, 100)
        /\ RuleOf(call.flight, Get(ret.bestRedemption)) = "d"
        /\ ret.bestOption = "CASH"
        /\ ret.savingsAmount = Abs(Get(ret.bestRedemption).savingsVsCash)

\* C18, amended: for a First flight priced 380 the best option is never a sweet
\* spot and its CPP is 1248/625 = 1.9968 under MR (JetBlue, 18750 points: the
\* CPP >= 1.5 rule), 312/125 = 2.496 under TYP (JetBlue, 15000 points) and
\* 117/25 = 4.68 under UR, C1 and BILT (Southwest, 8000 points: the CPP >= 2.0
\* rule), so the result is POINTS with savingsAmount = best.savingsVsCash, sign
\* kept.  The cash-deal check decides a First flight under 400 only when the
\* best CPP is below 1.5, and then the result is CASH with savingsAmount =
\* abs(best.savingsVsCash), as at price 200 under MR (CPP 648/625 = 1.0368).
C18_ScenarioD ==
    Called("analyzeFlightRedemption") =>
        /\ (catalog = ReferenceCatalog
            /\ call.flight = [price |-> Dollars(380), cabin |-> "First"]) =>
               /\ IsSome(ret.bestRedemption)
               /\ LET best == Get(ret.bestRedemption)
                  IN  /\ ~best.isSweetSpot
                      /\ call.program = "MR" =>
                             /\ best.partner.id = "jetblue" /\ best.sourcePoints = 18750
                             /\ CppIs(best, 1248, 625)
                             /\ RuleOf(call.flight, best) = "c"
                      /\ call.program = "TYP" =>
                             /\ best.partner.id = "jetblue" /\ best.sourcePoints = 15000
                             /\ CppIs(best, 312, 125)
                             /\ RuleOf(call.flight, best) = "b"
                      /\ call.program \in {"UR", "C1", "BILT"} =>
                             /\ best.partner.id = "southwest" /\ best.sourcePoints = 8000
                             /\ CppIs(best, 117, 25)
                             /\ RuleOf(call.flight, best) = "b"
                      /\ ret.bestOption = "POINTS"
                      /\ ret.savingsAmount = best.savingsVsCash
        /\ Scenario("MR", Dollars(200), "First") =>
               /\ IsSome(ret.bestRedemption)
               /\ CppIs(Get(ret.bestRedemption), 648, 625)
        /\ (/\ IsSome(ret.bestRedemption)
            /\ call.flight.cabin = "First" /\ call.flight.price < Dollars(400)) =>
               LET best == Get(ret.bestRedemption)
               IN  /\ RuleOf(call.flight, best) = "d" <=> ~CppGeq(best, 150)
                   /\ ~CppGeq(best, 150) =>
                          /\ ret.bestOption = "CASH"
                          /\ ret.savingsAmount = Abs(best.savingsVsCash)

\* the analysis of Scenario D's flight under MR: POINTS by the CPP >= 1.5 rule,
\* the savings reported with their sign (18750 points are worth 375, plus 5.60)
C18_Witness ==
    /\ Called("analyzeFlightRedemption")
    /\ Scenario("MR", Dollars(380), "First")
    /\ ret.bestOption = "POINTS"
    /\ ret.recommendation.wording = "Good value. Consider _ at _ CPP."
    /\ ret.savingsAmount = Cents(38000) - Cents(38060)

\* the fields of a RedemptionOption
OptionFields ==
    {"partner", "partnerPoints", "sourcePoints", "transferRatio", "taxes", "totalCost",
     "cpp", "isSweetSpot", "sweetSpotDescription", "recommendation", "savingsVsCash"}

\* C19: when the cash price is lower than an option's taxes, the CPP of that
\* option is negative for every option that costs points (all options of the
\* shipped catalog do; an award of 0 points has CPP 0), the value is an
\* ordinary finite number and not an error, and the tier is POOR; when every
\* option is in that situation analyzeFlightRedemption returns CASH with a
\* well-formed bestRedemption, the head of the ranked list.
C19_NegativeCpp ==
    LET options == IF Called("calculateAllRedemptions") THEN ret
                   ELSE IF Called("analyzeFlightRedemption") THEN ret.allRedemptions
                   ELSE << >>
        below(o) == call.flight.price < o.taxes
    IN  /\ \A i \in 1..Len(options) :
               LET o == options[i]
               IN  below(o) =>
                       /\ o.cpp.d > 0
                       /\ o.sourcePoints > 0 => o.cpp.n < 0
                       /\ catalog = ReferenceCatalog => o.cpp.n < 0
                       /\ o.cpp.n <= 0
                       /\ o.recommendation = "POOR"
        /\ (/\ Called("analyzeFlightRedemption")
            /\ Len(options) > 0
            /\ \A i \in 1..Len(options) : below(options[i])) =>
               /\ ret.bestOption = "CASH"
               /\ ret.bestRedemption = Some(options[1])
               /\ DOMAIN Get(ret.bestRedemption) = OptionFields
               /\ ret.savingsAmount = Abs(options[1].savingsVsCash)

\* a flight priced 5.00 analysed on the shipped catalog: every option has
\* taxes of 5.60 and a negative CPP, and the analysis answers CASH
C19_Witness ==
    /\ Called("analyzeFlightRedemption")
    /\ catalog = ReferenceCatalog
    /\ call.flight.price = Cents(500)
    /\ Len(ret.allRedemptions) > 1
    /\ \A i \in 1..Len(ret.allRedemptions) :
           /\ call.flight.price < ret.allRedemptions[i].taxes
           /\ ret.allRedemptions[i].cpp.n < 0
           /\ ret.allRedemptions[i].recommendation = "POOR"
    /\ ret.bestOption = "CASH"
    /\ IsSome(ret.bestRedemption)

\* C20: getBestRedemption returns the first element of the ranked list of
\* calculateAllRedemptions, or null when that list is empty; it is the
\* bestRedemption field of analyzeFlightRedemption for the same flight and
\* program, whatever the balance; and no option of an eligible partner has a
\* CPP greater than its CPP.
C20_BestRedemption ==
    Called("getBestRedemption") =>
        LET ranked == calculateAllRedemptions(call.flight, call.program)
            eligible == getPartnersForProgram(call.program)
        IN  /\ ret = None <=> ranked = << >>
            /\ ranked # << >> => ret = Some(ranked[1])
            /\ \A b \in Balances :
                   ret = analyzeFlightRedemption(call.flight, call.program, b).bestRedemption
            /\ IsSome(ret) =>
                   /\ \A i \in 1..Len(ranked) : RatCmp(ranked[i].cpp, Get(ret).cpp) <= 0
                   /\ \A k \in 1..Len(eligible) :
                          RatCmp(redemptionOption(eligible[k], call.flight, call.program).cpp,
                                 Get(ret).cpp) <= 0

\* a best redemption returned for a flight whose options differ in CPP, the
\* best one not being the option of the first eligible partner
C20_Witness ==
    /\ Called("getBestRedemption")
    /\ IsSome(ret)
    /\ LET ranked == calculateAllRedemptions(call.flight, call.program)
           eligible == getPartnersForProgram(call.program)
       IN  /\ Len(ranked) > 1
           /\ RatCmp(ranked[Len(ranked)].cpp, Get(ret).cpp) < 0
           /\ Get(ret).partner # eligible[1]

\* the sweet spots of a partner that the matcher can select: those declared
\* for a cabin a flight can have
CabinSweetSpots(partner) ==
    {i \in 1..Len(partner.sweetSpots) : partner.sweetSpots[i].cabin \in Cabin}

\* the partners of the shipped catalog whose sweet spot undercuts their saver price
Discounting == {"aadvantage", "air-france-klm"}

\* C21 as stated: in the reference catalog every sweet spot's point price is
\* strictly lower than the partner's saver-tier price for the sweet spot's
\* cabin, so the sweet-spot override strictly lowers the partner points of
\* every option it applies to.
C21_SweetSpotDiscount_AsStated ==
    (Called("calculateAllRedemptions") /\ catalog = ReferenceCatalog) =>
        /\ \A k \in 1..Len(catalog.partners) :
               \A i \in CabinSweetSpots(catalog.partners[k]) :
                   catalog.partners[k].sweetSpots[i].points
                       < saverPointsOf(catalog.partners[k],
                                       catalog.partners[k].sweetSpots[i].cabin)
        /\ \A i \in 1..Len(ret) :
               ret[i].isSweetSpot =>
                   ret[i].partnerPoints < basePointsOf(ret[i].partner, call.flight)

\* C21, amended: in the reference catalog every sweet spot's point price is
\* lower than or equal to the partner's saver-tier price for its cabin and
\* strictly lower than the standard-tier price; it is strictly lower than the
\* saver price only for AAdvantage (7500 against 12500) and Air France/KLM
\* (10000 against 12500).  So the override never raises the partner points of
\* an option, and lowers them exactly for those two partners' Economy options.
C21_SweetSpotDiscount ==
    (Called("calculateAllRedemptions") /\ catalog = ReferenceCatalog) =>
        /\ \A k \in 1..Len(catalog.partners) :
               LET partner == catalog.partners[k]
               IN  \A i \in CabinSweetSpots(partner) :
                       LET ss == partner.sweetSpots[i]
                           standardTier == IF ss.cabin = "Economy"
                                           THEN partner.domesticEconomy.standard
                                           ELSE partner.domesticFirst.standard
                       IN  /\ ss.points <= saverPointsOf(partner, ss.cabin)
                           /\ ss.points < standardTier
                           /\ ss.points < saverPointsOf(partner, ss.cabin)
                                  <=> partner.id \in Discounting
        /\ \A i \in 1..Len(ret) :
               LET base == basePointsOf(ret[i].partner, call.flight)
               IN  /\ ret[i].partnerPoints <= base
                   /\ ret[i].partnerPoints < base
                          <=> (ret[i].isSweetSpot /\ ret[i].partner.id \in Discounting)
                   /\ (ret[i].partner.id \in Discounting /\ call.flight.cabin = "Economy")
                          => ret[i].isSweetSpot

\* a ranked list of the shipped catalog holding a sweet-spot option priced at
\* the saver price (Avianca) and one priced below it (AAdvantage)
C21_Witness ==
    /\ Called("calculateAllRedemptions")
    /\ catalog = ReferenceCatalog
    /\ \E i \in OptionsOf(ret, "avianca") :
           /\ ret[i].isSweetSpot
           /\ ret[i].partnerPoints = basePointsOf(ret[i].partner, call.flight)
    /\ \E i \in OptionsOf(ret, "aadvantage") :
           /\ ret[i].isSweetSpot
           /\ ret[i].partnerPoints < basePointsOf(ret[i].partner, call.flight)

\* C22: with the reference catalog analyzeFlightRedemption returns POINTS
\* exactly when the top-ranked option's CPP is >= 1.5.  The CPP >= 1.0 rule
\* never yields POINTS: savingsVsCash is sourcePoints * (cpp - V) / 100, every
\* program's valuation V is at least 1.8, so an option below 1.8 CPP has
\* negative savings.
C22_PointsIffCpp15 ==
    (AnalyzedWithPartner /\ catalog = ReferenceCatalog) =>
        LET best == ret.allRedemptions[1]
            V == catalog.programs[call.program].valuationCPP
        IN  /\ ret.bestOption = "POINTS" <=> CppGeq(best, 150)
            /\ \A p \in PointsProgram : catalog.programs[p].valuationCPP >= 180
            \* cpp = (price - taxes) / sourcePoints * 100, V in hundredths of a cent
            /\ best.cpp.d = best.sourcePoints * (MoneyScale \div 100)
            /\ best.savingsVsCash = best.cpp.n - best.sourcePoints * V
            /\ ~CppGeq(best, 180) => best.savingsVsCash < 0
            /\ RuleOf(call.flight, best) = "e" => ret.bestOption = "CASH"

\* an analysis on the shipped catalog whose best CPP lies in [1.0, 1.5): the
\* answer is CASH and the savings at the program's valuation are negative
C22_Witness ==
    /\ AnalyzedWithPartner
    /\ catalog = ReferenceCatalog
    /\ CppGeq(ret.allRedemptions[1], 100) /\ ~CppGeq(ret.allRedemptions[1], 150)
    /\ ret.allRedemptions[1].savingsVsCash < 0
    /\ ret.bestOption = "CASH"

\* C23 as stated: whenever analyzeFlightRedemption returns POINTS the reported
\* savingsAmount is strictly positive, and savingsAmount is never negative in
\* any result (checked on the shipped catalog).
C23_SavingsPositive_AsStated ==
    (Called("analyzeFlightRedemption") /\ catalog = ReferenceCatalog) =>
        /\ ret.bestOption = "POINTS" => ret.savingsAmount > 0
        /\ ret.savingsAmount >= 0

\* C23, amended: savingsAmount is never negative when the result is CASH.
\* When the result is POINTS it is best.savingsVsCash with its sign: strictly
\* positive exactly when the best CPP exceeds the source program's valuation,
\* zero when they are equal and negative when the best CPP lies in
\* [1.5, valuation), as for an Economy flight priced 100 under UR
\* (6000 points at CPP 1.573 against a valuation of 2.0: -25.60).
C23_SavingsSign ==
    Called("analyzeFlightRedemption") =>
        /\ ret.bestOption = "CASH" => ret.savingsAmount >= 0
        /\ ret.bestOption = "POINTS" =>
               /\ IsSome(ret.bestRedemption)
               /\ LET best == Get(ret.bestRedemption)
                      V == catalog.programs[call.program].valuationCPP
                  IN  /\ ret.savingsAmount = best.savingsVsCash
                      /\ best.sourcePoints > 0
                      \* cpp > V, = V, < V  (cpp = cpp.n / (sourcePoints * 100))
                      /\ ret.savingsAmount > 0 <=> best.cpp.n > best.sourcePoints * V
                      /\ ret.savingsAmount = 0 <=> best.cpp.n = best.sourcePoints * V
                      /\ ret.savingsAmount < 0 =>
                             /\ CppGeq(best, 150)
                             /\ best.cpp.n < best.sourcePoints * V
        /\ Scenario("UR", Dollars(100), "Economy") =>
               /\ ret.bestOption = "POINTS"
               /\ ret.savingsAmount = Cents(10000) - Cents(12560)

\* the analysis of an Economy flight priced 100 under UR: POINTS through
\* JetBlue's sweet spot, with a negative savingsAmount
C23_Witness ==
    /\ Called("analyzeFlightRedemption")
    /\ Scenario("UR", Dollars(100), "Economy")
    /\ ret.bestOption = "POINTS"
    /\ Get(ret.bestRedemption).partner.id = "jetblue"
    /\ ret.savingsAmount < 0

\* the partner declares a strictly positive transfer ratio for the program
DeclaresRatio(partner, program) ==
    program \in DOMAIN partner.transferRatios /\ partner.transferRatios[program] > 0

\* C24: with the reference catalog every program has an eligible partner,
\* every eligible partner declares a strictly positive transfer ratio for the
\* program (the 1.0 default is never used) and strictly positive award prices;
\* so the ranked list is never empty, every sourcePoints is > 0,
\* bestRedemption is never null and the no-transfer-partners analysis is
\* never returned.
C24_ReferenceCatalogComplete ==
    catalog = ReferenceCatalog =>
        /\ Called("getPartnersForProgram") =>
               /\ \A p \in PointsProgram : getPartnersForProgram(p) # << >>
               /\ ret # << >>
               /\ \A i \in 1..Len(ret) :
                      /\ DeclaresRatio(ret[i], call.program)
                      /\ \A c \in Cabin : saverPointsOf(ret[i], c) > 0
                      /\ \A k \in 1..Len(ret[i].sweetSpots) : ret[i].sweetSpots[k].points > 0
        /\ Called("calculateAllRedemptions") =>
               /\ ret # << >>
               /\ \A i \in 1..Len(ret) :
                      /\ DeclaresRatio(ret[i].partner, call.program)
                      /\ ret[i].transferRatio = ret[i].partner.transferRatios[call.program]
                      /\ ret[i].partnerPoints > 0
                      /\ ret[i].sourcePoints > 0
        /\ Called("getBestRedemption") => IsSome(ret) /\ Get(ret).sourcePoints > 0
        /\ Called("analyzeFlightRedemption") =>
               /\ ret.allRedemptions # << >>
               /\ IsSome(ret.bestRedemption)
               /\ ret.recommendation # NoPartnersText

\* an analysis of a flight priced 0 on the shipped catalog under C1, which two
\* of the nine partners do not accept: a best redemption is still returned
C24_Witness ==
    /\ Called("analyzeFlightRedemption")
    /\ catalog = ReferenceCatalog
    /\ call.program = "C1" /\ call.flight.price = 0
    /\ IsSome(ret.bestRedemption)
    /\ Len(ret.allRedemptions) = Len(catalog.partners) - 2
    /\ Get(ret.bestRedemption).sourcePoints > 0

\* C25 as stated: for every flight and program the top-ranked option of
\* calculateAllRedemptions requires the fewest source points of all options,
\* also when the cash price is below the taxes (checked on the shipped catalog).
C25_FewestPoints_AsStated ==
    (Called("calculateAllRedemptions") /\ catalog = ReferenceCatalog) =>
        \A i \in 1..Len(ret) : ret[1].sourcePoints <= ret[i].sourcePoints

\* C25, amended: among options that carry the same taxes and cost points (all
\* options of the reference catalog: taxes 5.60), the top-ranked option
\* requires the fewest source points when the cash price exceeds the taxes
\* and the MOST source points when the cash price is below the taxes, the CPP
\* being negative then; when the price equals the taxes every CPP is 0 and the
\* top-ranked option is that of the first eligible partner of the catalog.
C25_FewestPoints ==
    (Called("calculateAllRedemptions") /\ ret # << >>) =>
        LET best == ret[1]
            price == call.flight.price
            alike == {i \in 1..Len(ret) : /\ ret[i].taxes = best.taxes
                                           /\ ret[i].sourcePoints > 0
                                           /\ best.sourcePoints > 0}
        IN  /\ catalog = ReferenceCatalog =>
                   /\ alike = 1..Len(ret)
                   /\ best.taxes = Cents(560)
                   /\ price = best.taxes =>
                          best.partner = getPartnersForProgram(call.program)[1]
            /\ price > best.taxes =>
                   \A i \in alike : best.sourcePoints <= ret[i].sourcePoints
            /\ price < best.taxes =>
                   \A i \in alike : best.sourcePoints >= ret[i].sourcePoints

\* a ranked list of the shipped catalog for a flight priced 5.00: its head
\* costs more source points than its last option
C25_Witness ==
    /\ Called("calculateAllRedemptions")
    /\ catalog = ReferenceCatalog
    /\ call.flight.price = Cents(500)
    /\ Len(ret) > 1
    /\ ret[1].sourcePoints > ret[Len(ret)].sourcePoints
    /\ ret[1].cpp.n < 0

\* C26: every alert returned by findCashDeals with the default thresholds
\* belongs to a flight whose attached analysis recommends CASH: a flight is
\* never labelled CASH_DEAL while analyzeFlightRedemption, for the same flight
\* and program, returns POINTS.
C26_CashDealsAreCash ==
    (Called("findCashDeals") /\ catalog = ReferenceCatalog) =>
        \A i \in 1..Len(ret) :
            /\ ret[i].type = "CASH_DEAL"
            /\ ret[i].analysis.bestOption = "CASH"
            /\ analyzeFlightRedemption(ret[i].flight, call.program, None).bestOption = "CASH"

\* the elements of a sequence
Elements(seq) == {seq[i] : i \in 1..Len(seq)}

\* a stored cache that is at most CACHE_DURATION_MS old at time now and was
\* recorded for the same set of origins and the same set of destinations
FreshCacheFor(stored, now, req) ==
    /\ IsSome(stored)
    /\ now - Get(stored).timestamp <= CACHE_DURATION_MS
    /\ Elements(Get(stored).origins) = Elements(req.origins)
    /\ Elements(Get(stored).destinations) = Elements(req.destinations)

\* what a call of searchFlights that found a fresh cache, and was not forced
\* to refresh, has done when it returns
ServedFromCache(req) ==
    LET started == search'.calls[Len(search'.calls)]
    IN  /\ search'.flights = Get(search.storage).flights
        /\ search'.dataSource = "cache"
        /\ ~search'.isLoading
        /\ search'.storage = search.storage
        /\ started.stage = "done"
        /\ started.requested = {}
        /\ ~started.wroteCache

\* what any other call of searchFlights has done at its first await: it has
\* requested a service and shown nothing of the cache
SentToService(req) ==
    LET started == search'.calls[Len(search'.calls)]
    IN  /\ started.stage \in {"api", "mock"}
        /\ started.requested = {started.stage}
        /\ started.result = None
        /\ search'.flights = search.flights
        /\ search'.dataSource = search.dataSource

\* every completed call that requested a service shows that service's answer
\* to it and has written the cache
ServiceResultsCached ==
    \A id \in 1..Len(search.calls) :
        LET c == search.calls[id]
        IN  (c.stage = "done" /\ c.requested # {}) =>
                /\ c.wroteCache
                /\ IsSome(c.result)
                /\ \/ /\ Get(c.result).dataSource = "api"
                      /\ Get(c.result).flights = ApiFlights(id)
                      /\ c.requested = {"api"}
                   \/ /\ Get(c.result).dataSource = "mock"
                      /\ Get(c.result).flights = MockFlights(id)
                      /\ "mock" \in c.requested

C28_LoadingTracksCalls ==
    (search # Unmounted /\ search.calls # << >>) =>
        LET pending == {id \in 1..Len(search.calls) : search.calls[id].stage # "done"}
            latest == search.calls[Len(search.calls)]
        IN  /\ pending # {} => search.isLoading
            /\ pending = {} =>
                   /\ ~search.isLoading
                   /\ search.flights = Get(latest.result).flights
                   /\ search.dataSource = Get(latest.result).dataSource

\* flights are loaded and some watched route matches one of them
WatchedRouteMatches ==
    /\ alerting # Unmounted
    /\ \E k \in 1..Len(alerting.watchedRoutes) :
           IsSome(bestFlights(alerting.flights, alerting.watchedRoutes)[k])

\* C29: after flights are loaded while some watched route matches a flight,
\* the price-check effect of the App eventually stops re-running: although it
\* replaces watchedRoutes, one of its own dependencies, a state is reached in
\* which no further run of the effect is scheduled.
C29_EffectSettles == WatchedRouteMatches ~> ~EffectScheduled

\* the watched route with the given id
RouteOf(id) ==
    alerting.watchedRoutes[CHOOSE k \in 1..Len(alerting.watchedRoutes) :
                               alerting.watchedRoutes[k].id = id]

\* the loaded flights of a route's city pair within its dates
MatchingFlights(route) ==
    {alerting.flights[i] : i \in {j \in 1..Len(alerting.flights) :
        /\ alerting.flights[j].origin = route.origin
        /\ alerting.flights[j].destination = route.destination
        /\ alerting.flights[j].date >= route.dateFrom
        /\ alerting.flights[j].date <= route.dateTo}}

\* the alerts a step has put in front of the list
AlertsAdded ==
    {alerting'.alerts[n] : n \in 1..(Len(alerting'.alerts) - Len(alerting.alerts))}

\* C30: checkPricesAgainstWatched does not alert twice for the same price.  A
\* check emits an alert for a watched route only when the lowest matching
\* price is at or under the route's targetPrice, is strictly lower than the
\* price last recorded in the price history for that route and date (or none
\* is recorded), and the savedAmount is > 0; so when the check before it found
\* the same lowest price on the same date for the route, it emits no alert
\* for it: of checks with an unchanged lowest price only the first may alert.
C30_NoRepeatedAlert ==
    [][RunEffect =>
          /\ Len(alerting'.alerts) >= Len(alerting.alerts)
          /\ \A a \in AlertsAdded :
                 LET route == RouteOf(a.routeId)
                     lowest == Min({f.price : f \in MatchingFlights(route)})
                     recorded == alerting.priceHistory[
                                     <<route.origin, route.destination, a.date>>]
                 IN  /\ \E f \in MatchingFlights(route) :
                            f.date = a.date /\ f.price = lowest
                     /\ a.currentPrice = lowest
                     /\ lowest <= route.targetPrice
                     /\ ~IsSome(recorded) \/ Get(recorded).price > lowest
                     /\ a.savedAmount > 0
                     /\ alerting.lastBest[a.routeId] #
                            Some([date |-> a.date, price |-> lowest])
          /\ \A a, b \in AlertsAdded : a.routeId = b.routeId => a = b ]_vars

\* one load of a flight at 90 for the route r1 (target 150), checked at least
\* twice: the first check alerted, the checks after it did not
C30_Witness ==
    /\ alerting # Unmounted
    /\ alerting.loads = 1
    /\ alerting.flights = << Offer("DCA", "MIA", 1, Dollars(90)) >>
    /\ Len(alerting.watchedRoutes) = 1
    /\ alerting.routesRef = 0
    /\ alerting.effectDeps = Some(<<1, 1>>)
    /\ Len(alerting.alerts) = 1
    /\ alerting.alerts[1].routeId = "r1"
    /\ alerting.alerts[1].currentPrice = Dollars(90)
    /\ alerting.alerts[1].savedAmount = Dollars(60)
    /\ alerting.lastBest["r1"] = Some([date |-> 1, price |-> Dollars(90)])

====
